---- MODULE Spec2Model ----
(***************************************************************************)
(* Bluetooth Classic logger (Avneesh-1/BCA): the log context, the logs     *)
(* screen (epoch heuristic, spreadsheet export) and the main screen        *)
(* (initialisation, pairing, connection, data subscription).               *)
(*                                                                         *)
(* Text is modelled as sequences of one-character strings.  Numbers that   *)
(* exceed 32 bits (13-digit epoch values) are kept as sequences of decimal *)
(* digits and compared / divided digit by digit.                           *)
(***************************************************************************)
EXTENDS Integers, Sequences, FiniteSets, TLC

VARIABLES
  isLogging,           \* LogContext: useState(false)
  logData,             \* LogContext: useState<LogEntry[]>([])
  arrived,             \* history: the payloads handed to appendLog since the last clearLogs
  excelData,           \* LogsScreen.exportToExcel: the rows handed to aoa_to_sheet (<<>> before)
  routeDevice,         \* LogsScreen: route.params.connectedDevice
  epochArg,            \* LogsScreen.isEpoch: the digit run handed to it (<<>> when none)
  epochResult,         \* LogsScreen.isEpoch: "none" before the call, then "accepted" / "rejected"
  alert,               \* LogsScreen.exportToExcel: the text of its last Alert.alert or toast ("none" before)
  pendingPromise,      \* SafFileModule: the promise of the save in progress (0 for null)
  pendingFileName,     \* SafFileModule: its file name ("null" for null)
  pendingBase64,       \* SafFileModule: its content ("null" for null)
  promises,            \* SafFileModule: how the promise of each saveFileWithDialog call stands
  documents,           \* platform: what has been written to each document URI
  pickers,             \* platform: document pickers opened and not yet answered
  isBluetoothEnabled,  \* MainScreen state
  isScanning,
  pairedDevices,
  unpairedDevices,
  connectedDevice,
  status,
  isAppReady,
  appState,
  backIsScanning,      \* isScanning as captured by the hardwareBackPress handler's closure
  dataSubscription,    \* MainScreen.tsx module variable: the subscription object it refers to
  liveSubs,            \* platform: number of registered data listeners per device
  osBonded,            \* platform: addresses in the OS bond list
  osConnected,         \* platform: addresses with an open connection
  lastConnectedDevice, \* AsyncStorage key 'lastConnectedDevice'
  lastSuccess,         \* history: address of the device whose connect() last returned true
  tasks,               \* the async invocations in progress and where each one stands
  now,                 \* wall clock read by new Date()
  autoAttempts,        \* history: connectToDevice calls made by initializeApp
  registrations,       \* history: onDataReceived listeners registered so far (counted up to 2)
  userActions          \* history: main-screen taps and app-state changes so far

safVars == <<pendingPromise, pendingFileName, pendingBase64, promises, documents, pickers>>
sheetVars == <<excelData, epochArg, epochResult, safVars, alert>>
logVars == <<isLogging, logData, arrived, sheetVars, routeDevice>>
screenVars == <<isBluetoothEnabled, isScanning, pairedDevices, unpairedDevices, connectedDevice,
                status, isAppReady, appState, backIsScanning>>
platformVars == <<dataSubscription, liveSubs, osBonded, osConnected, lastConnectedDevice,
                  lastSuccess>>
histVars == <<now, autoAttempts, registrations, userActions>>
vars == <<logVars, screenVars, platformVars, tasks, histVars>>

(***************************************************************************)
(* Characters                                                              *)
(***************************************************************************)
Digits == {"0","1","2","3","4","5","6","7","8","9"}

DigitVal ==
  [c \in Digits |->
     CASE c = "0" -> 0 [] c = "1" -> 1 [] c = "2" -> 2 [] c = "3" -> 3
       [] c = "4" -> 4 [] c = "5" -> 5 [] c = "6" -> 6 [] c = "7" -> 7
       [] c = "8" -> 8 [] c = "9" -> 9]

DigitChar == <<"0","1","2","3","4","5","6","7","8","9">>

Letters == {"D","d","P","a","x","_"}

IsDigit(c) == c \in Digits

\* \w of a JavaScript regular expression: letters, digits and underscore
IsWordChar(c) == c \in Digits \cup Letters

\* \s of a JavaScript regular expression (the white space the samples use)
IsSpace(c) == c \in {" ", "\t"}

\* decimal digits of a small natural number, left-padded with zeros to width w
RECURSIVE Dg(_, _)
Dg(n, w) == IF w = 0 THEN <<>> ELSE Dg(n \div 10, w - 1) \o <<DigitChar[(n % 10) + 1]>>

\* `${x}` of a small natural number: its decimal digits without padding
RECURSIVE Str(_)
Str(n) == IF n < 10 THEN <<DigitChar[n + 1]>> ELSE Str(n \div 10) \o <<DigitChar[(n % 10) + 1]>>

(***************************************************************************)
(* Numbers as digit sequences                                              *)
(***************************************************************************)
\* Number(m) / parseInt(m, 10) of an all-digit string: leading zeros carry no value
RECURSIVE Number(_)
Number(m) == IF Len(m) > 1 /\ Head(m) = "0" THEN Number(Tail(m)) ELSE m

RECURSIVE LexLess(_, _)
LexLess(a, b) ==
  IF a = <<>> THEN FALSE
  ELSE IF DigitVal[Head(a)] # DigitVal[Head(b)] THEN DigitVal[Head(a)] < DigitVal[Head(b)]
  ELSE LexLess(Tail(a), Tail(b))

\* a < b for normalised digit sequences
NumLess(a, b) == Len(a) < Len(b) \/ (Len(a) = Len(b) /\ LexLess(a, b))
NumLeq(a, b) == a = b \/ NumLess(a, b)

\* Math.floor(n / 1000)
FloorDiv1000(n) == IF Len(n) <= 3 THEN <<"0">> ELSE SubSeq(n, 1, Len(n) - 3)

\* n * 1000
Times1000(n) == IF n = <<"0">> THEN n ELSE n \o <<"0","0","0">>

\* long division of a digit sequence by a small divisor: [q |-> quotient, r |-> remainder]
RECURSIVE LongDiv(_, _, _)
LongDiv(ds, d, acc) ==
  IF ds = <<>> THEN acc
  ELSE LET cur == acc.r * 10 + DigitVal[Head(ds)]
       IN  LongDiv(Tail(ds), d, [q |-> acc.q * 10 + (cur \div d), r |-> cur % d])

DivMod(n, d) == LongDiv(n, d, [q |-> 0, r |-> 0])

(***************************************************************************)
(* Date: the instant of a millisecond count, read in UTC                   *)
(***************************************************************************)
\* the largest time value a Date holds (8.64e15 ms); beyond it the Date is invalid
MaxDateMs == Dg(864, 3) \o Dg(0, 13)

DateValid(ms) == NumLeq(ms, MaxDateMs)

\* whole days since 1970-01-01 and the second within the day
DateDays(ms) == DivMod(ms, 86400000).q
DateSecOfDay(ms) == DivMod(ms, 86400000).r \div 1000

\* getUTCDay(): 0 = Sunday; 1970-01-01 was a Thursday
UTCDay(days) == (days + 4) % 7

\* getUTCFullYear / getUTCMonth (0-based) / getUTCDate of a day count
Civil(days) ==
  LET z   == days + 719468
      era == z \div 146097
      doe == z % 146097
      yoe == (doe - (doe \div 1460) + (doe \div 36524) - (doe \div 146096)) \div 365
      doy == doe - (365 * yoe + (yoe \div 4) - (yoe \div 100))
      mp  == (5 * doy + 2) \div 153
      d   == doy - ((153 * mp + 2) \div 5) + 1
      m   == IF mp < 10 THEN mp + 3 ELSE mp - 9
  IN  [year |-> yoe + era * 400 + (IF m <= 2 THEN 1 ELSE 0), month |-> m - 1, date |-> d]

(***************************************************************************)
(* LogsScreen: epoch heuristic                                             *)
(***************************************************************************)
TwoBillion == Str(2000000000)
Year2000Sec == Str(946684800)
Year2100Sec == Dg(4102, 4) \o Dg(444800, 6)

isEpoch(n) ==
  LET sec == IF NumLess(TwoBillion, n) THEN FloorDiv1000(n) ELSE n
  IN  NumLeq(Year2000Sec, sec) /\ NumLeq(sec, Year2100Sec)

DayNames == << <<"S","u","n">>, <<"M","o","n">>, <<"T","u","e">>, <<"W","e","d">>,
               <<"T","h","u">>, <<"F","r","i">>, <<"S","a","t">> >>

MonthNames == << <<"J","a","n">>, <<"F","e","b">>, <<"M","a","r">>, <<"A","p","r">>,
                 <<"M","a","y">>, <<"J","u","n">>, <<"J","u","l">>, <<"A","u","g">>,
                 <<"S","e","p">>, <<"O","c","t">>, <<"N","o","v">>, <<"D","e","c">> >>

pad(x) == IF x < 10 THEN <<"0">> \o Str(x) ELSE Str(x)

formatEpoch(n) ==
  LET ms   == IF NumLess(TwoBillion, n) THEN n ELSE Times1000(n)
      days == DateDays(ms)
      sod  == DateSecOfDay(ms)
      c    == Civil(days)
  IN  DayNames[UTCDay(days) + 1] \o <<" ">> \o MonthNames[c.month + 1] \o <<" ">>
        \o pad(c.date) \o <<" ">>
        \o pad(sod \div 3600) \o <<":">> \o pad((sod % 3600) \div 60) \o <<":">> \o pad(sod % 60)
        \o <<" ">> \o Str(c.year)

\* \b at the gap before position i (1-based) of s: exactly one side is a word character
WordBoundary(s, i) ==
  LET before == i > 1 /\ IsWordChar(s[i - 1])
      after  == i <= Len(s) /\ IsWordChar(s[i])
  IN  before # after

AllDigits(s, i, k) == i + k - 1 <= Len(s) /\ \A j \in i .. (i + k - 1) : IsDigit(s[j])

\* lengths k with which /\b\d{10,13}\b/ matches at position i
EpochTokenLens(s, i) ==
  {k \in 10 .. 13 : WordBoundary(s, i) /\ AllDigits(s, i, k) /\ WordBoundary(s, i + k)}

MaxOf(S) == CHOOSE k \in S : \A j \in S : j <= k

RECURSIVE ReplaceFrom(_, _)
ReplaceFrom(s, i) ==
  IF i > Len(s) THEN <<>>
  ELSE IF EpochTokenLens(s, i) # {}
       THEN LET k   == MaxOf(EpochTokenLens(s, i))
                m   == SubSeq(s, i, i + k - 1)
                num == Number(m)
            IN  (IF ~isEpoch(num) THEN m ELSE formatEpoch(num)) \o ReplaceFrom(s, i + k)
       ELSE <<s[i]>> \o ReplaceFrom(s, i + 1)

convertLineTimestamps(line) == ReplaceFrom(line, 1)

(***************************************************************************)
(* LogsScreen: the live log view                                           *)
(***************************************************************************)
\* the terminal renders one <Text> per entry, showing item.data
TerminalText == [i \in 1 .. Len(logData) |-> logData[i].data]

(***************************************************************************)
(* LogsScreen: spreadsheet export                                          *)
(***************************************************************************)
LongDayNames ==
  << <<"S","u","n","d","a","y">>,
     <<"M","o","n","d","a","y">>,
     <<"T","u","e","s","d","a","y">>,
     <<"W","e","d","n","e","s","d","a","y">>,
     <<"T","h","u","r","s","d","a","y">>,
     <<"F","r","i","d","a","y">>,
     <<"S","a","t","u","r","d","a","y">> >>

LongMonthNames ==
  << <<"J","a","n","u","a","r","y">>,
     <<"F","e","b","r","u","a","r","y">>,
     <<"M","a","r","c","h">>,
     <<"A","p","r","i","l">>,
     <<"M","a","y">>,
     <<"J","u","n","e">>,
     <<"J","u","l","y">>,
     <<"A","u","g","u","s","t">>,
     <<"S","e","p","t","e","m","b","e","r">>,
     <<"O","c","t","o","b","e","r">>,
     <<"N","o","v","e","m","b","e","r">>,
     <<"D","e","c","e","m","b","e","r">> >>

InvalidDate == <<"I","n","v","a","l","i","d"," ","D","a","t","e">>

\* toLocaleDateString('en-US', {weekday: 'long', year: 'numeric', month: 'long', day: 'numeric'})
toLocaleDateString(ms) ==
  IF ~DateValid(ms) THEN InvalidDate
  ELSE LET days == DateDays(ms)
           c    == Civil(days)
       IN  LongDayNames[UTCDay(days) + 1] \o <<",", " ">> \o LongMonthNames[c.month + 1]
             \o <<" ">> \o Str(c.date) \o <<",", " ">> \o Str(c.year)

\* toLocaleTimeString('en-US', {hour12: false, hour: '2-digit', minute: '2-digit', second: '2-digit'})
toLocaleTimeString(ms) ==
  IF ~DateValid(ms) THEN InvalidDate
  ELSE LET sod == DateSecOfDay(ms)
       IN  pad(sod \div 3600) \o <<":">> \o pad((sod % 3600) \div 60) \o <<":">> \o pad(sod % 60)

RECURSIVE SpaceRun(_, _)
SpaceRun(s, i) == IF i <= Len(s) /\ IsSpace(s[i]) THEN 1 + SpaceRun(s, i + 1) ELSE 0

RECURSIVE DigitRun(_, _)
DigitRun(s, i) == IF i <= Len(s) /\ IsDigit(s[i]) THEN 1 + DigitRun(s, i + 1) ELSE 0

CharAt(s, i, c) == i <= Len(s) /\ s[i] = c

\* a filter that compares the prefix case-sensitively
IsDataLine_CaseSensitive(data) ==
  LET n == SpaceRun(data, 1)
  IN  CharAt(data, n + 1, "D") /\ CharAt(data, n + 2, ":")

\* /^\s*D:/i.test(item.data)
IsDataLine(data) ==
  LET n == SpaceRun(data, 1)
  IN  (CharAt(data, n + 1, "D") \/ CharAt(data, n + 1, "d")) /\ CharAt(data, n + 2, ":")

\* item.data.replace(/^\s*D:\s*/, '')
StripDataPrefix(data) ==
  LET n == SpaceRun(data, 1)
  IN  IF CharAt(data, n + 1, "D") /\ CharAt(data, n + 2, ":")
      THEN LET m == SpaceRun(data, n + 3)
           IN  SubSeq(data, n + 3 + m, Len(data))
      ELSE data

\* /(\d{10,13}),(\d+),(\d+)#/ tried at position i with a first group of k digits
PpmMatchAt(s, i, k) ==
  /\ AllDigits(s, i, k)
  /\ CharAt(s, i + k, ",")
  /\ LET j  == i + k + 1
         r2 == DigitRun(s, j)
     IN  /\ r2 >= 1
         /\ CharAt(s, j + r2, ",")
         /\ LET l  == j + r2 + 1
                r3 == DigitRun(s, l)
            IN  r3 >= 1 /\ CharAt(s, l + r3, "#")

PpmStarts(s) == {i \in 1 .. Len(s) : \E k \in 10 .. 13 : PpmMatchAt(s, i, k)}

MinOf(S) == CHOOSE k \in S : \A j \in S : k <= j

\* dataLine.match(...): <<>> for null, else the three groups of the leftmost match
PpmMatch(s) ==
  IF PpmStarts(s) = {} THEN <<>>
  ELSE LET i  == MinOf(PpmStarts(s))
           k  == MaxOf({x \in 10 .. 13 : PpmMatchAt(s, i, x)})
           j  == i + k + 1
           r2 == DigitRun(s, j)
           l  == j + r2 + 1
           r3 == DigitRun(s, l)
       IN  << SubSeq(s, i, i + k - 1), SubSeq(s, j, j + r2 - 1), SubSeq(s, l, l + r3 - 1) >>

\* new Date(epochTimestamp * 1000): the time value in milliseconds
EpochToDate(epochTimestamp) == Times1000(epochTimestamp)

SheetHeader == <<"Serial Number", "Date", "Time", "Outlet PPM", "Inlet PPM">>

\* one row of the sheet for a filtered entry
ExcelRow(serialNumber, data) ==
  LET dataLine == StripDataPrefix(data)
      ppmMatch == PpmMatch(dataLine)
  IN  IF ppmMatch # <<>>
      THEN LET dataDate == EpochToDate(Number(ppmMatch[1]))
           IN  << Str(serialNumber), toLocaleDateString(dataDate), toLocaleTimeString(dataDate),
                  ppmMatch[2], ppmMatch[3] >>
      ELSE << Str(serialNumber), <<>>, <<>>, <<>>, <<>> >>

\* logData.filter(item => /^\s*D:/i.test(item.data))
FilterDataLines(log) == SelectSeq(log, LAMBDA item : IsDataLine(item.data))

BuildExcelData(log) ==
  LET filtered == FilterDataLines(log)
  IN  <<SheetHeader>> \o [i \in 1 .. Len(filtered) |-> ExcelRow(i, filtered[i].data)]

(***************************************************************************)
(* Payloads the device sends                                               *)
(***************************************************************************)
MaxLines == 3

SampleLines ==
  { <<"D",":","1","7","0","0","0","0","0","0","0","0",",","4","1","2",",","3","8","#">>,
    <<" ","D",":"," ","1","7","0","0","0","0","0","0","0","0","0","0","0",",","5",",","6","#","P",":","1","7","0","0","0","0","0","0","0","1",",","9",";">>,
    <<"d",":","2","0","0","0","0","0","0","0","0","1",",","1",",","2","#">>,
    <<"P",":","1","7","0","0","0","0","0","0","0","0",",","3",";">>,
    <<"D",":","1","2",",","7","#">>,
    <<"D",":","9","9","9","9","9","9","9","9","9","9","9","9","9",",","1",",","2","#">>,
    <<"D",":","1","2","3","4","5","6","7","8","9","0","1","2","3","4","5",",","5",",","6","#">>,
    <<"a"," ","0","9","4","6","6","8","4","8","0","0"," ","4","1","0","2","4","4","4","8","0","0">>,
    <<"0","9","4","6","6","8","4","7","9","9",",","9","4","6","6","8","4","8","0","0","0","0","0",",","4","1","0","2","4","4","4","8","0","0","9","9","9">>,
    <<"9","4","6","6","8","4","7","9","9","9","9","9"," ","4","1","0","2","4","4","4","8","0","1","0","0","0"," ","4","1","0","2","4","4","4","8","0","1">>,
    <<"D",":","8","6","4","0","0","0","0","0","0","0","0","0","0",",","0",",","0","#">>,
    <<"D",":","8","6","4","0","0","0","0","0","0","0","0","0","1",",","0","7",",","0","#">>,
    <<"2","0","0","0","0","0","0","0","0","0"," ","1","0","0","0","0","0","0","0","0","0","_"," ","1","7","0","0","0","0","0","0","0","0","0">>,
    <<>> }

RECURSIVE SeqsUpTo(_, _)
SeqsUpTo(S, n) ==
  IF n = 0 THEN {<<>>}
  ELSE SeqsUpTo(S, n - 1) \cup {Append(q, x) : q \in {r \in SeqsUpTo(S, n - 1) : Len(r) = n - 1}, x \in S}


(***************************************************************************)
(* Devices                                                                 *)
(***************************************************************************)
\* the devices in radio range; a device object is [address, bonded], its name goes with its address
Addresses == {"sensor1", "sensor2", "phone", "generic"}

DeviceName ==
  [a \in Addresses |->
     CASE a = "sensor1" -> <<"B","C","A","-","0","1">>
       [] a = "sensor2" -> <<>>
       [] a = "phone"   -> <<"M","y"," ","A","N","D","R","O","I","D">>
       [] a = "generic" -> <<"H","C","-","0","5">>]

DeviceAddress ==
  [a \in Addresses |->
     CASE a = "sensor1" -> <<"9","8",":","D","3",":","3","1",":","F","5",":","2","A",":","0","1">>
       [] a = "sensor2" -> <<"9","8",":","D","3",":","3","1",":","F","5",":","2","A",":","0","2">>
       [] a = "phone"   -> <<"A","C",":","3","7",":","4","3",":","1","B",":","2","C",":","3","D">>
       [] a = "generic" -> <<"0","0",":","0","0",":","0","0",":","1","2",":","3","4",":","5","6">>]

NoDevice == [address |-> "none", bonded |-> FALSE]

Device(a, b) == [address |-> a, bonded |-> b]

UpperCase == <<"A","B","C","D","E","F","G","H","I","J","K","L","M","N","O","P","Q","R","S","T","U","V","W","X","Y","Z">>
LowerCase == <<"a","b","c","d","e","f","g","h","i","j","k","l","m","n","o","p","q","r","s","t","u","v","w","x","y","z">>

toLowerCaseChar(c) ==
  IF \E i \in 1 .. Len(UpperCase) : UpperCase[i] = c
  THEN LowerCase[CHOOSE i \in 1 .. Len(UpperCase) : UpperCase[i] = c]
  ELSE c

toLowerCase(s) == [i \in 1 .. Len(s) |-> toLowerCaseChar(s[i])]

\* String.prototype.includes
includes(s, t) == \E i \in 1 .. (Len(s) - Len(t) + 1) : SubSeq(s, i, i + Len(t) - 1) = t

dummyNames ==
  << <<"U","n","k","n","o","w","n"," ","D","e","v","i","c","e">>,
     <<"U","n","k","n","o","w","n">>,
     <<"B","l","u","e","t","o","o","t","h"," ","D","e","v","i","c","e">>,
     <<"B","T"," ","D","e","v","i","c","e">>,
     <<"D","e","v","i","c","e">>,
     <<"P","h","o","n","e">>,
     <<"M","o","b","i","l","e">>,
     <<"A","n","d","r","o","i","d">>,
     <<"T","e","s","t"," ","D","e","v","i","c","e">>,
     <<"D","u","m","m","y"," ","D","e","v","i","c","e">> >>

genericAddresses ==
  << <<"0","0",":","0","0",":","0","0">>, <<"F","F",":","F","F",":","F","F">>, <<"A","A",":","A","A",":","A","A">>, <<"B","B",":","B","B",":","B","B">> >>

\* device.name && device.name.toLowerCase().includes(dummy.toLowerCase()) for some dummy
isDummyName(name) ==
  name # <<>> /\ \E i \in 1 .. Len(dummyNames) : includes(toLowerCase(name), toLowerCase(dummyNames[i]))

isGenericAddress(address) ==
  address # <<>> /\ \E i \in 1 .. Len(genericAddresses) : includes(address, genericAddresses[i])

\* a filter that forgets the name block-list
IsRealPaired_NoNameCheck(device) ==
  device.bonded /\ ~isGenericAddress(DeviceAddress[device.address])

\* the predicate of systemDevices.filter(...) in fetchPairedDevices
IsRealPaired(device) ==
  /\ device.bonded
  /\ ~isDummyName(DeviceName[device.address])
  /\ ~isGenericAddress(DeviceAddress[device.address])

\* the platform lists devices in a fixed order
AddressOrder == <<"sensor1", "sensor2", "phone", "generic">>

\* RNBluetoothClassic.getBondedDevices(): the bonded devices, each with bonded = true
BondedDevices(bondedSet) ==
  LET all == [i \in 1 .. Len(AddressOrder) |-> Device(AddressOrder[i], TRUE)]
  IN  SelectSeq(all, LAMBDA d : d.address \in bondedSet)

\* what a discovery reports: the devices found, each flagged with its bond state
DiscoveredDevices(found, bondedSet) ==
  LET all == [i \in 1 .. Len(AddressOrder) |-> Device(AddressOrder[i], AddressOrder[i] \in bondedSet)]
  IN  SelectSeq(all, LAMBDA d : d.address \in found)

RealPairedDevices(systemDevices) == SelectSeq(systemDevices, IsRealPaired)

Range(q) == {q[i] : i \in 1 .. Len(q)}

(***************************************************************************)
(* Async invocations                                                       *)
(***************************************************************************)
MaxTasks == 2
MaxLog == 2
MaxClock == 1
MaxUserActions == 2

Tasks == 1 .. MaxTasks

\* a tap on the main screen or an app-state change; the model follows runs of at most
\* MaxUserActions of them
UserEvent == userActions < MaxUserActions /\ userActions' = userActions + 1

\* kind: the handler that was invoked; pc: the await it is suspended at;
\* dev: its device argument; cPaired / cConn: pairedDevices and connectedDevice
\* as captured by the closure of the render it was invoked from
Idle == [kind |-> "idle", pc |-> "idle", dev |-> NoDevice, cPaired |-> <<>>, cConn |-> NoDevice]

Task(kind, pc, dev, cPaired, cConn) ==
  [kind |-> kind, pc |-> pc, dev |-> dev, cPaired |-> cPaired, cConn |-> cConn]

\* the slot a new invocation takes
FreeSlot(t) == tasks[t].kind = "idle" /\ \A u \in Tasks : u < t => tasks[u].kind # "idle"

At(t, pc) == tasks[t].pc = pc

SetTask(t, pc) == tasks' = [tasks EXCEPT ![t].pc = pc]
EndTask(t) == tasks' = [tasks EXCEPT ![t] = Idle]

NoSubscription == [address |-> "none", removed |-> TRUE]

\* subscription.remove(): unregisters the listener once
LiveAfterRemove(sub, live) ==
  IF sub # NoSubscription /\ ~sub.removed
  THEN [live EXCEPT ![sub.address] = @ - 1]
  ELSE live

AppStates == {"active", "background"}

Payloads == {<<"D",":","1","7","0","0","0","0","0","0","0","0",",","4","1","2",",","3","8","#">>}

Discoverable == {"sensor1", "sensor2"}

(***************************************************************************)
(* LogContext and LogsScreen buttons                                       *)
(***************************************************************************)
\* navigation.navigate('Logs', { connectedDevice })
NavigateToLogs ==
  /\ routeDevice' = connectedDevice
  /\ routeDevice # connectedDevice
  /\ UNCHANGED <<isLogging, logData, arrived, sheetVars, screenVars, platformVars, tasks, now, autoAttempts, registrations, userActions>>

\* a startLogging that toggles the flag
startLogging_Toggle(logging) == ~logging

\* LogContext: startLogging = () => setIsLogging(true)
startLogging(logging) == TRUE

\* LogContext: stopLogging = () => setIsLogging(false)
stopLogging(logging) == FALSE

\* LogContext: clearLogs = () => setLogData([])
clearLogs(log) == <<>>

\* the Start Logging button (disabled while logging): without a device only the 'Not
\* Connected' alert; else startLogging(), then await connectedDevice.write('GET_LOGS\n')
\* settles: the toast, or the catch with its 'Failed to start logging or request logs.'
\* alert.  A write succeeds only on an open connection.  (The dialogs are not kept as state.)
StartLogging(writeOk) ==
  /\ ~isLogging
  /\ IF routeDevice = NoDevice
     THEN /\ ~writeOk
          /\ UNCHANGED isLogging
     ELSE /\ writeOk => routeDevice.address \in osConnected
          /\ isLogging' = startLogging(isLogging)
  /\ UNCHANGED <<logData, arrived, sheetVars, routeDevice, screenVars, platformVars, tasks, now,
                 autoAttempts, registrations, userActions>>

\* the Stop Logging button (disabled while not logging)
StopLogging ==
  /\ isLogging
  /\ isLogging' = stopLogging(isLogging)
  /\ UNCHANGED <<logData, arrived, sheetVars, routeDevice, screenVars, platformVars, tasks, now, autoAttempts, registrations, userActions>>

\* Clear Logs, confirmed in its dialog
ClearLogs ==
  /\ logData # <<>>
  /\ logData' = clearLogs(logData)
  /\ arrived' = <<>>
  /\ UNCHANGED <<isLogging, sheetVars, routeDevice, screenVars, platformVars, tasks, now, autoAttempts, registrations, userActions>>

\* an appendLog that puts the new entry in front
appendLog_Prepend(log, ts, data) == <<[timestamp |-> ts, data |-> data]>> \o log

\* appendLog: setLogData(prev => [...prev, {timestamp: new Date().toISOString(), data}])
appendLog(log, ts, data) == Append(log, [timestamp |-> ts, data |-> data])

RECURSIVE appendTimes(_, _, _, _)
appendTimes(log, ts, data, n) ==
  IF n = 0 THEN log ELSE appendTimes(appendLog(log, ts, data), ts, data, n - 1)

\* the payloads the callbacks have handed to appendLog, in the order of the calls
RECURSIVE arrivedTimes(_, _, _)
arrivedTimes(seen, data, n) ==
  IF n = 0 THEN seen ELSE arrivedTimes(Append(seen, data), data, n - 1)

\* the platform delivers one payload of device a to every listener registered for it;
\* each listener is the onDataReceived callback of connectToDevice
DataReceived(a, data) ==
  /\ a \in osConnected
  /\ liveSubs[a] > 0
  /\ Len(logData) + liveSubs[a] <= MaxLog
  /\ \E ts \in {now, now + 1} :
       /\ ts <= MaxClock
       /\ now' = ts
       /\ logData' = appendTimes(logData, ts, data, liveSubs[a])
  /\ arrived' = arrivedTimes(arrived, data, liveSubs[a])
  /\ status' = "Receiving data..."
  /\ UNCHANGED <<isLogging, sheetVars, routeDevice, isBluetoothEnabled, isScanning, pairedDevices,
                 unpairedDevices, connectedDevice, isAppReady, appState, backIsScanning, platformVars, tasks,
                 autoAttempts, registrations, userActions>>

\* two payloads of device a are delivered one after the other before React renders again:
\* the two functional updates are queued and applied in order to the same state
DataBurst(a, first, second) ==
  /\ a \in osConnected
  /\ liveSubs[a] = 1
  /\ Len(logData) + 2 <= MaxLog
  /\ logData' = appendLog(appendLog(logData, now, first), now, second)
  /\ arrived' = arrivedTimes(arrivedTimes(arrived, first, 1), second, 1)
  /\ status' = "Receiving data..."
  /\ UNCHANGED <<isLogging, sheetVars, routeDevice, isBluetoothEnabled, isScanning, pairedDevices,
                 unpairedDevices, connectedDevice, isAppReady, appState, backIsScanning, platformVars,
                 tasks, histVars>>

(***************************************************************************)
(* MainScreen: fetchPairedDevices                                          *)
(***************************************************************************)
\* where the caller of fetchPairedDevices resumes: initializeApp awaits getItem next,
\* connectToDevice saves the list and calls device.connect()
FetchReturn(t) ==
  tasks' = [tasks EXCEPT ![t].pc = IF tasks[t].kind = "init" THEN "i_last" ELSE "c_conn"]

\* await requestPermissions() inside fetchPairedDevices
FetchPerm(t) ==
  /\ At(t, "f_perm")
  /\ \/ /\ SetTask(t, "f_bonded")
        /\ UNCHANGED status
     \/ /\ status' = "Bluetooth permissions are required to fetch paired devices."
        /\ FetchReturn(t)
  /\ UNCHANGED <<logVars, isBluetoothEnabled, isScanning, pairedDevices, unpairedDevices,
                 connectedDevice, isAppReady, appState, backIsScanning, platformVars, histVars>>

\* getBondedDevices() resolves before the 10 s timer; the list is filtered, set and saved.
\* (savePairedDevices swallows its errors and the saved copy is never read back into state.)
FetchSettle(t) ==
  /\ At(t, "f_bonded")
  /\ pairedDevices' = RealPairedDevices(BondedDevices(osBonded))
  /\ status' = "Found paired devices."
  /\ FetchReturn(t)
  /\ UNCHANGED <<logVars, isBluetoothEnabled, isScanning, unpairedDevices, connectedDevice,
                 isAppReady, appState, backIsScanning, platformVars, histVars>>

\* getBondedDevices() rejects
FetchFail(t) ==
  /\ At(t, "f_bonded")
  /\ status' = "Error loading paired devices."
  /\ FetchReturn(t)
  /\ UNCHANGED <<logVars, isBluetoothEnabled, isScanning, pairedDevices, unpairedDevices,
                 connectedDevice, isAppReady, appState, backIsScanning, platformVars, histVars>>

\* the 10 s timer of the Promise.race fires first
FetchTimeout(t) ==
  /\ At(t, "f_bonded")
  /\ status' = "Error loading paired devices."
  /\ FetchReturn(t)
  /\ UNCHANGED <<logVars, isBluetoothEnabled, isScanning, pairedDevices, unpairedDevices,
                 connectedDevice, isAppReady, appState, backIsScanning, platformVars, histVars>>

(***************************************************************************)
(* MainScreen: initializeApp                                               *)
(***************************************************************************)
\* getDeviceInfo, checkBluetoothEnabled and requestPermissions have returned
InitCheck(t) ==
  /\ At(t, "i_check")
  /\ \E bt \in {"on", "off", "error"} :
       /\ isBluetoothEnabled' = IF bt = "error" THEN isBluetoothEnabled ELSE bt = "on"
       /\ \/ /\ SetTask(t, "f_perm")          \* permissions granted: fetchPairedDevices()
             /\ status' = CASE bt = "on" -> "Bluetooth is enabled."
                            [] bt = "off" -> "Bluetooth is disabled. Please enable Bluetooth in settings."
                            [] OTHER -> "Error checking Bluetooth status."
             /\ UNCHANGED isAppReady
          \/ /\ status' = "Permissions required. Please grant Bluetooth and Location permissions."
             /\ isAppReady' = TRUE
             /\ EndTask(t)
  /\ UNCHANGED <<logVars, isScanning, pairedDevices, unpairedDevices, connectedDevice, appState, backIsScanning,
                 platformVars, histVars>>

\* the end of initializeApp, reached without a further await:
\* setStatus('App ready...'); setIsAppReady(true)
InitFinish(t) ==
  /\ status' = "App ready. Tap \"Scan for Devices\" to start."
  /\ isAppReady' = TRUE
  /\ EndTask(t)

\* await getItem('lastConnectedDevice') resolves
InitLast(t) ==
  /\ At(t, "i_last")
  /\ IF lastConnectedDevice = "none"
     THEN InitFinish(t)
     ELSE /\ tasks' = [tasks EXCEPT ![t].pc = "i_find", ![t].dev = Device(lastConnectedDevice, TRUE)]
          /\ UNCHANGED <<status, isAppReady>>
  /\ UNCHANGED <<logVars, isBluetoothEnabled, isScanning, pairedDevices, unpairedDevices,
                 connectedDevice, appState, backIsScanning, platformVars, histVars>>

\* getItem or the unguarded getBondedDevices() rejects: the outer catch
InitError(t) ==
  /\ At(t, "i_last") \/ At(t, "i_find")
  /\ status' = "Error initializing app. Please restart."
  /\ EndTask(t)
  /\ UNCHANGED <<logVars, isBluetoothEnabled, isScanning, pairedDevices, unpairedDevices,
                 connectedDevice, isAppReady, appState, backIsScanning, platformVars, histVars>>

\* the address initializeApp looks for in the bond list
ReconnectTarget(bondedSet, lastAddress) == {a \in bondedSet : a = lastAddress}

\* getBondedDevices() resolves; paired.find(d => d.address === lastAddress)
InitFind(t) ==
  /\ At(t, "i_find")
  /\ IF ReconnectTarget(osBonded, tasks[t].dev.address) # {}
     THEN /\ \E a \in ReconnectTarget(osBonded, tasks[t].dev.address) :
               tasks' = [tasks EXCEPT ![t].pc = "c_perm", ![t].dev = Device(a, TRUE)]
          /\ status' = "Connecting..."
          /\ autoAttempts' = autoAttempts + 1
          /\ UNCHANGED isAppReady
     ELSE /\ InitFinish(t)
          /\ UNCHANGED autoAttempts
  /\ UNCHANGED <<logVars, isBluetoothEnabled, isScanning, pairedDevices, unpairedDevices,
                 connectedDevice, appState, backIsScanning, platformVars, now, registrations, userActions>>

(***************************************************************************)
(* MainScreen: connectToDevice                                             *)
(***************************************************************************)
\* a connectToDevice whose failure is thrown on to initializeApp's outer catch
ConnectReturn_Rethrow(t, message) ==
  /\ status' = IF tasks[t].kind = "init" THEN "Error initializing app. Please restart." ELSE message
  /\ UNCHANGED isAppReady
  /\ EndTask(t)

\* connectToDevice returns after setStatus(message): to the UI, or to initializeApp when
\* it was the reconnect, which then runs to its end without a further await
ConnectReturn(t, message) ==
  IF tasks[t].kind = "init"
  THEN InitFinish(t)
  ELSE /\ status' = message
       /\ UNCHANGED isAppReady
       /\ EndTask(t)

\* a row of the paired list (not the connected one) or of the available list is tapped
ConnectTap(t, item) ==
  /\ UserEvent
  /\ FreeSlot(t)
  /\ \/ /\ item \in Range(pairedDevices)
        /\ ~(connectedDevice # NoDevice /\ item.address = connectedDevice.address)
     \/ /\ item \in Range(unpairedDevices)
        /\ ~isScanning
  /\ tasks' = [tasks EXCEPT ![t] = Task("connect", "c_perm", item, <<>>, NoDevice)]
  /\ status' = "Connecting..."
  /\ UNCHANGED <<logVars, isBluetoothEnabled, isScanning, pairedDevices, unpairedDevices,
                 connectedDevice, isAppReady, appState, backIsScanning, platformVars, now, autoAttempts, registrations>>

\* await requestPermissions() returns; then pairDevice or device.connect() is called
ConnectPerm(t) ==
  /\ At(t, "c_perm")
  /\ \/ ConnectReturn(t, "Bluetooth permissions are required to connect.")
     \/ /\ ~tasks[t].dev.bonded
        /\ status' = "Pairing with device..."
        /\ SetTask(t, "c_pair")
        /\ UNCHANGED isAppReady
     \/ /\ tasks[t].dev.bonded
        /\ SetTask(t, "c_conn")
        /\ UNCHANGED <<status, isAppReady>>
  /\ UNCHANGED <<logVars, isBluetoothEnabled, isScanning, pairedDevices, unpairedDevices,
                 connectedDevice, appState, backIsScanning, platformVars, histVars>>

\* pairDevice settles before the 15 s timer
PairSettle(t, r) ==
  /\ At(t, "c_pair")
  /\ CASE r = "true" ->
            /\ osBonded' = osBonded \cup {tasks[t].dev.address}
            /\ status' = "Successfully paired. Connecting now..."
            /\ SetTask(t, "f_perm")
            /\ UNCHANGED isAppReady
       [] r = "false" ->
            /\ ConnectReturn(t, "Pairing failed. Please pair the device manually in Bluetooth settings.")
            /\ UNCHANGED osBonded
       [] OTHER ->
            /\ ConnectReturn(t, "Pairing failed: Unknown error")
            /\ UNCHANGED osBonded
  /\ UNCHANGED <<logVars, isBluetoothEnabled, isScanning, pairedDevices, unpairedDevices,
                 connectedDevice, appState, backIsScanning, dataSubscription, liveSubs, osConnected,
                 lastConnectedDevice, lastSuccess, histVars>>

\* a connectToDevice that races only device.connect() against a timer
TimedCalls_ConnectOnly == {"connect"}

\* the calls of connectToDevice that are raced against a setTimeout rejection
TimedCalls == {"pair", "connect"}

\* the 15 s timer fires first; the pairing left behind may still complete in the platform
PairTimeout(t) ==
  /\ At(t, "c_pair")
  /\ "pair" \in TimedCalls
  /\ osBonded' \in {osBonded, osBonded \cup {tasks[t].dev.address}}
  /\ ConnectReturn(t, "Pairing failed: Pairing timeout")
  /\ UNCHANGED <<logVars, isBluetoothEnabled, isScanning, pairedDevices, unpairedDevices,
                 connectedDevice, appState, backIsScanning, dataSubscription, liveSubs, osConnected,
                 lastConnectedDevice, lastSuccess, histVars>>

\* device.connect() settles before the 20 s timer
ConnectSettle(t, r) ==
  /\ At(t, "c_conn")
  /\ CASE r = "true" ->
            /\ connectedDevice' = tasks[t].dev
            /\ osConnected' = osConnected \cup {tasks[t].dev.address}
            /\ status' = "Connected to device!"
            /\ lastSuccess' = tasks[t].dev.address
            /\ SetTask(t, "c_store")
            /\ UNCHANGED isAppReady
       [] r = "false" ->
            /\ ConnectReturn(t, "Failed to connect to device")
            /\ UNCHANGED <<connectedDevice, osConnected, lastSuccess>>
       [] OTHER ->
            /\ ConnectReturn(t, "Connection error: Unknown error")
            /\ UNCHANGED <<connectedDevice, osConnected, lastSuccess>>
  /\ UNCHANGED <<logVars, isBluetoothEnabled, isScanning, pairedDevices, unpairedDevices,
                 appState, backIsScanning, dataSubscription, liveSubs, osBonded,
                 lastConnectedDevice, histVars>>

\* a timeout branch that takes the device for connected all the same
ConnectTimeout_SetsDevice(t) ==
  /\ At(t, "c_conn")
  /\ "connect" \in TimedCalls
  /\ osConnected' = osConnected \cup {tasks[t].dev.address}
  /\ connectedDevice' = tasks[t].dev
  /\ ConnectReturn(t, "Connection error: Connection timeout")
  /\ UNCHANGED <<logVars, isBluetoothEnabled, isScanning, pairedDevices, unpairedDevices,
                 appState, backIsScanning, dataSubscription, liveSubs, osBonded,
                 lastConnectedDevice, lastSuccess, histVars>>

\* the 20 s timer fires first; the connect left behind may still open the connection
ConnectTimeout(t) ==
  /\ At(t, "c_conn")
  /\ "connect" \in TimedCalls
  /\ osConnected' \in {osConnected, osConnected \cup {tasks[t].dev.address}}
  /\ ConnectReturn(t, "Connection error: Connection timeout")
  /\ UNCHANGED <<logVars, isBluetoothEnabled, isScanning, pairedDevices, unpairedDevices,
                 connectedDevice, appState, backIsScanning, dataSubscription, liveSubs, osBonded,
                 lastConnectedDevice, lastSuccess, histVars>>

\* a connectToDevice that registers its listener without removing the previous one
Subscribe_KeepOld(sub, live, a) ==
  [sub |-> [address |-> a, removed |-> FALSE], live |-> [live EXCEPT ![a] = @ + 1]]

\* if (dataSubscription) { remove(); = null }  dataSubscription = device.onDataReceived(...)
Subscribe(sub, live, a) ==
  [sub  |-> [address |-> a, removed |-> FALSE],
   live |-> [LiveAfterRemove(sub, live) EXCEPT ![a] = @ + 1]]

\* await setItem('lastConnectedDevice', address) settles; then the data listener is replaced
StoreSettle(t, ok) ==
  /\ At(t, "c_store")
  /\ IF ok
     THEN /\ lastConnectedDevice' = tasks[t].dev.address
          /\ dataSubscription' = Subscribe(dataSubscription, liveSubs, tasks[t].dev.address).sub
          /\ liveSubs' = Subscribe(dataSubscription, liveSubs, tasks[t].dev.address).live
          /\ registrations' = IF registrations < 2 THEN registrations + 1 ELSE registrations
          /\ ConnectReturn(t, status)
     ELSE /\ ConnectReturn(t, "Connection error: Unknown error")
          /\ UNCHANGED <<lastConnectedDevice, dataSubscription, liveSubs, registrations>>
  /\ UNCHANGED <<logVars, isBluetoothEnabled, isScanning, pairedDevices, unpairedDevices,
                 connectedDevice, appState, backIsScanning, osBonded, osConnected, lastSuccess, now,
                 autoAttempts, userActions>>

(***************************************************************************)
(* MainScreen: disconnectDevice, removePairedDevice                        *)
(***************************************************************************)
\* disconnectDevice returns: to removePairedDevice (which calls unpairDevice next) or to the UI
DisconnectReturn(t) ==
  tasks' = [tasks EXCEPT ![t] = IF tasks[t].kind = "remove" THEN [@ EXCEPT !.pc = "r_unpair"] ELSE Idle]

\* the connected row of the paired list is tapped
DisconnectTap(t) ==
  /\ UserEvent
  /\ FreeSlot(t)
  /\ connectedDevice # NoDevice
  /\ \E item \in Range(pairedDevices) : item.address = connectedDevice.address
  /\ tasks' = [tasks EXCEPT ![t] = Task("disconnect", "d_disc", NoDevice, <<>>, connectedDevice)]
  /\ UNCHANGED <<logVars, screenVars, platformVars, now, autoAttempts, registrations>>

\* a disconnectDevice that clears connectedDevice before awaiting the platform call
DisconnectSettle_ClearFirst(t, ok) ==
  /\ At(t, "d_disc")
  /\ connectedDevice' = NoDevice
  /\ IF ok
     THEN /\ osConnected' = osConnected \ {tasks[t].cConn.address}
          /\ liveSubs' = LiveAfterRemove(dataSubscription, liveSubs)
          /\ dataSubscription' = NoSubscription
          /\ status' = "Disconnected."
     ELSE /\ status' = "Error disconnecting."
          /\ UNCHANGED <<osConnected, liveSubs, dataSubscription>>
  /\ DisconnectReturn(t)
  /\ UNCHANGED <<logVars, isBluetoothEnabled, isScanning, pairedDevices, unpairedDevices,
                 isAppReady, appState, backIsScanning, osBonded, lastConnectedDevice, lastSuccess, histVars>>

\* await connectedDevice.disconnect() settles
DisconnectSettle(t, ok) ==
  /\ At(t, "d_disc")
  /\ IF ok
     THEN /\ osConnected' = osConnected \ {tasks[t].cConn.address}
          /\ connectedDevice' = NoDevice
          /\ liveSubs' = LiveAfterRemove(dataSubscription, liveSubs)
          /\ dataSubscription' = NoSubscription
          /\ status' = "Disconnected."
     ELSE /\ status' = "Error disconnecting."
          /\ UNCHANGED <<osConnected, connectedDevice, liveSubs, dataSubscription>>
  /\ DisconnectReturn(t)
  /\ UNCHANGED <<logVars, isBluetoothEnabled, isScanning, pairedDevices, unpairedDevices,
                 isAppReady, appState, backIsScanning, osBonded, lastConnectedDevice, lastSuccess, histVars>>

\* the delete icon of a paired row is tapped
RemoveTap(t, item) ==
  /\ UserEvent
  /\ FreeSlot(t)
  /\ item \in Range(pairedDevices)
  /\ tasks' = [tasks EXCEPT ![t] = Task("remove", "r_perm", item, pairedDevices, connectedDevice)]
  /\ status' = "Removing device..."
  /\ UNCHANGED <<logVars, isBluetoothEnabled, isScanning, pairedDevices, unpairedDevices,
                 connectedDevice, isAppReady, appState, backIsScanning, platformVars, now, autoAttempts, registrations>>

\* await requestPermissions() returns; the connected device is disconnected first
RemovePerm(t) ==
  /\ At(t, "r_perm")
  /\ \/ /\ status' = "Bluetooth permissions are required to remove paired devices."
        /\ EndTask(t)
     \/ /\ tasks[t].cConn # NoDevice /\ tasks[t].cConn.address = tasks[t].dev.address
        /\ SetTask(t, "d_disc")
        /\ UNCHANGED status
     \/ /\ ~(tasks[t].cConn # NoDevice /\ tasks[t].cConn.address = tasks[t].dev.address)
        /\ SetTask(t, "r_unpair")
        /\ UNCHANGED status
  /\ UNCHANGED <<logVars, isBluetoothEnabled, isScanning, pairedDevices, unpairedDevices,
                 connectedDevice, isAppReady, appState, backIsScanning, platformVars, histVars>>

\* pairedDevices.filter(d => d.address !== device.address)
WithoutDevice(list, device) == SelectSeq(list, LAMBDA d : d.address # device.address)

\* await unpairDevice(address) settles; on success the rescan timer is armed
RemoveSettle(t, r) ==
  /\ At(t, "r_unpair")
  /\ CASE r = "true" ->
            /\ osBonded' = osBonded \ {tasks[t].dev.address}
            /\ pairedDevices' = WithoutDevice(tasks[t].cPaired, tasks[t].dev)
            /\ status' = "Successfully removed device."
            /\ SetTask(t, "rs_wait")
       [] r = "false" ->
            /\ status' = "Failed to remove device"
            /\ EndTask(t)
            /\ UNCHANGED <<osBonded, pairedDevices>>
       [] OTHER ->
            /\ status' = "Error removing paired device."
            /\ EndTask(t)
            /\ UNCHANGED <<osBonded, pairedDevices>>
  /\ UNCHANGED <<logVars, isBluetoothEnabled, isScanning, unpairedDevices, connectedDevice,
                 isAppReady, appState, backIsScanning, dataSubscription, liveSubs, osConnected,
                 lastConnectedDevice, lastSuccess, histVars>>

\* the 1 s timer fires: setIsScanning(true); setUnpairedDevices([]); startDiscovery()
RescanFire(t) ==
  /\ At(t, "rs_wait")
  /\ isScanning' = TRUE
  /\ unpairedDevices' = <<>>
  /\ SetTask(t, "rs_disc")
  /\ UNCHANGED <<logVars, isBluetoothEnabled, pairedDevices, connectedDevice, status, isAppReady,
                 appState, backIsScanning, platformVars, histVars>>

\* startDiscovery() of the rescan resolves with the devices found
RescanSettle(t, found) ==
  /\ At(t, "rs_disc")
  /\ unpairedDevices' = DiscoveredDevices(found, osBonded)
  /\ isScanning' = FALSE
  /\ EndTask(t)
  /\ UNCHANGED <<logVars, isBluetoothEnabled, pairedDevices, connectedDevice, status, isAppReady,
                 appState, backIsScanning, platformVars, histVars>>

\* startDiscovery() of the rescan rejects
RescanFail(t) ==
  /\ At(t, "rs_disc")
  /\ isScanning' = FALSE
  /\ EndTask(t)
  /\ UNCHANGED <<logVars, isBluetoothEnabled, pairedDevices, unpairedDevices, connectedDevice,
                 status, isAppReady, appState, backIsScanning, platformVars, histVars>>

(***************************************************************************)
(* MainScreen: scanForDevices                                              *)
(***************************************************************************)
\* scanForDevices() as the Scan button (disabled while scanning or with Bluetooth off)
\* invokes it: the guards, then setIsScanning(true), setUnpairedDevices([]) and the first await
scanForDevices(t) ==
  /\ FreeSlot(t)
  /\ ~isScanning /\ isBluetoothEnabled
  /\ IF ~isAppReady
     THEN /\ status' = "App is still initializing. Please wait."
          /\ UNCHANGED <<isScanning, unpairedDevices, tasks>>
     ELSE /\ isScanning' = TRUE
          /\ unpairedDevices' = <<>>
          /\ status' = "Scanning for devices..."
          /\ tasks' = [tasks EXCEPT ![t] = Task("scan", "s_cancel", NoDevice, pairedDevices, NoDevice)]
  /\ UNCHANGED <<logVars, isBluetoothEnabled, pairedDevices, connectedDevice, isAppReady,
                 appState, backIsScanning, platformVars, now, autoAttempts, registrations>>

\* the Scan button (disabled while scanning or with Bluetooth off) is pressed within the
\* runs the model follows
ScanTap(t) == UserEvent /\ scanForDevices(t)

\* await RNBluetoothClassic.cancelDiscovery() settles (no timer guards this call)
ScanCancel(t, ok) ==
  /\ At(t, "s_cancel")
  /\ IF ok
     THEN /\ SetTask(t, "s_perm")
          /\ UNCHANGED <<status, isScanning>>
     ELSE /\ status' = "Scan error: Unknown error"
          /\ isScanning' = FALSE
          /\ EndTask(t)
  /\ UNCHANGED <<logVars, isBluetoothEnabled, pairedDevices, unpairedDevices, connectedDevice,
                 isAppReady, appState, backIsScanning, platformVars, histVars>>

\* the 1 s pause has elapsed and await requestPermissions() returns
ScanPerm(t, granted) ==
  /\ At(t, "s_perm")
  /\ IF granted
     THEN /\ SetTask(t, "s_bt")
          /\ UNCHANGED <<status, isScanning>>
     ELSE /\ status' = "Bluetooth permissions are required for scanning."
          /\ isScanning' = FALSE
          /\ EndTask(t)
  /\ UNCHANGED <<logVars, isBluetoothEnabled, pairedDevices, unpairedDevices, connectedDevice,
                 isAppReady, appState, backIsScanning, platformVars, histVars>>

\* await RNBluetoothClassic.isBluetoothEnabled() settles (no timer guards this call);
\* then startDiscovery() is called and raced against the 30 s timer
ScanEnabled(t, r) ==
  /\ At(t, "s_bt")
  /\ CASE r = "true" ->
            /\ status' = "Scanning..."
            /\ SetTask(t, "s_disc")
            /\ UNCHANGED isScanning
       [] r = "false" ->
            /\ status' = "Bluetooth was disabled during scan."
            /\ isScanning' = FALSE
            /\ EndTask(t)
       [] OTHER ->
            /\ status' = "Scan error: Unknown error"
            /\ isScanning' = FALSE
            /\ EndTask(t)
  /\ UNCHANGED <<logVars, isBluetoothEnabled, pairedDevices, unpairedDevices, connectedDevice,
                 isAppReady, appState, backIsScanning, platformVars, histVars>>

\* discovered.filter(device => !pairedDevices.some(p => same address or same non-empty name))
UnpairedOnly(discovered, paired) ==
  SelectSeq(discovered,
            LAMBDA device : ~\E p \in Range(paired) :
               \/ p.address = device.address
               \/ /\ DeviceName[p.address] # <<>>
                  /\ DeviceName[device.address] # <<>>
                  /\ DeviceName[p.address] = DeviceName[device.address])

\* startDiscovery() resolves before the 30 s timer
ScanSettle(t, found) ==
  /\ At(t, "s_disc")
  /\ unpairedDevices' = UnpairedOnly(DiscoveredDevices(found, osBonded), tasks[t].cPaired)
  /\ status' = IF unpairedDevices' = <<>> THEN "No new devices found." ELSE "Found new devices."
  /\ isScanning' = FALSE
  /\ EndTask(t)
  /\ UNCHANGED <<logVars, isBluetoothEnabled, pairedDevices, connectedDevice, isAppReady,
                 appState, backIsScanning, platformVars, histVars>>

\* startDiscovery() rejects
ScanFail(t) ==
  /\ At(t, "s_disc")
  /\ status' = "Scan error: Unknown error"
  /\ isScanning' = FALSE
  /\ EndTask(t)
  /\ UNCHANGED <<logVars, isBluetoothEnabled, pairedDevices, unpairedDevices, connectedDevice,
                 isAppReady, appState, backIsScanning, platformVars, histVars>>

\* the 30 s timer of the Promise.race fires first
ScanTimeout(t) ==
  /\ At(t, "s_disc")
  /\ status' = "Scan error: Scan timeout after 30 seconds"
  /\ isScanning' = FALSE
  /\ EndTask(t)
  /\ UNCHANGED <<logVars, isBluetoothEnabled, pairedDevices, unpairedDevices, connectedDevice,
                 isAppReady, appState, backIsScanning, platformVars, histVars>>

\* hardware back while the handler's closure holds isScanning = true: stopScanning() is
\* called and its await cancelDiscovery() resolves (a rejection is swallowed, changing nothing)
StopScanning ==
  /\ backIsScanning
  /\ isScanning' = FALSE
  /\ status' = "Scan stopped."
  /\ UNCHANGED <<logVars, isBluetoothEnabled, pairedDevices, unpairedDevices, connectedDevice,
                 isAppReady, appState, backIsScanning, platformVars, tasks, histVars>>

(***************************************************************************)
(* MainScreen: the effect on [appState]                                    *)
(***************************************************************************)
\* the effect cleanup: if (dataSubscription) dataSubscription.remove()   (the variable is kept)
CleanupSubscription(sub) == IF sub = NoSubscription THEN sub ELSE [sub EXCEPT !.removed = TRUE]

\* useEffect(..., [appState]): the effect re-runs when the dependency changed
EffectRuns(prev, next) == prev # next

\* AppState 'change': setAppState(next); the old effect is cleaned up and the effect runs
\* again, registering a hardwareBackPress handler that closes over the current isScanning
appStateChanged(t, next) ==
  /\ FreeSlot(t)
  /\ next # appState
  /\ appState' = next
  /\ IF EffectRuns(appState, next)
     THEN /\ backIsScanning' = isScanning
          /\ liveSubs' = LiveAfterRemove(dataSubscription, liveSubs)
          /\ dataSubscription' = CleanupSubscription(dataSubscription)
          /\ tasks' = [tasks EXCEPT ![t] = Task("init", "i_check", NoDevice, <<>>, NoDevice)]
          /\ status' = "Initializing..."
     ELSE UNCHANGED <<backIsScanning, liveSubs, dataSubscription, tasks, status>>
  /\ UNCHANGED <<logVars, isBluetoothEnabled, isScanning, pairedDevices, unpairedDevices,
                 connectedDevice, isAppReady, osBonded, osConnected, lastConnectedDevice, lastSuccess,
                 now, autoAttempts, registrations>>

\* an app-state change within the runs the model follows
AppStateChange(t, next) == UserEvent /\ appStateChanged(t, next)

(***************************************************************************)
(* SafFileModule (Android): saveFileWithDialog, onActivityResult           *)
(***************************************************************************)
MaxSaves == 2

\* the promises of the saveFileWithDialog calls, in call order
Saves == 1 .. MaxSaves

FileNames == {"bluetooth_logs_1.xlsx", "bluetooth_logs_2.xlsx"}

\* Base64.decode(pendingBase64, Base64.DEFAULT) for the workbooks XLSX.write produces
Base64Decode == [b \in {"UEsDBA==", "UEsDBB=="} |-> IF b = "UEsDBA==" THEN "504B0304" ELSE "504B0305"]

Base64Texts == DOMAIN Base64Decode

\* the document URIs the picker can hand back
Uris == {"content://documents/1", "content://documents/2"}

\* private val REQUEST code of startActivityForResult(intent, 2025)
SaveRequestCode == 2025

Unused == [state |-> "unused", value |-> ""]
Pending == [state |-> "pending", value |-> ""]
Resolved(v) == [state |-> "resolved", value |-> v]
Rejected(code) == [state |-> "rejected", value |-> code]

\* the module right after construction, nothing saved yet
SafIdle ==
  /\ pendingPromise = 0
  /\ pendingFileName = "null"
  /\ pendingBase64 = "null"
  /\ promises = [p \in Saves |-> Unused]
  /\ documents = [u \in Uris |-> "empty"]
  /\ pickers = 0

\* the promise the bridge creates for the next call
NextPromise == CHOOSE p \in Saves : promises[p] = Unused /\ \A q \in Saves : q < p => promises[q] # Unused

\* saveFileWithDialog(fileName, base64, promise); activity is whether currentActivity is non-null
saveFileWithDialog(fileName, base64, activity) ==
  /\ \E p \in Saves : promises[p] = Unused
  /\ IF ~activity
     THEN /\ promises' = [promises EXCEPT ![NextPromise] = Rejected("NO_ACTIVITY")]
          /\ UNCHANGED <<pendingPromise, pendingFileName, pendingBase64, pickers>>
     ELSE /\ pendingPromise' = NextPromise
          /\ pendingFileName' = fileName
          /\ pendingBase64' = base64
          /\ promises' = [promises EXCEPT ![NextPromise] = Pending]
          /\ pickers' = pickers + 1
  /\ UNCHANGED documents

\* the body of onActivityResult for RESULT_OK with a data intent: what the promise gets and
\* what the document holds afterwards.  stream is what openOutputStream(uri) gives back
\* ("stream", "null" as the platform allows, or "throws"), writeOk whether write() returns
WriteDocument(uri, base64, stream, writeOk, docs) ==
  IF uri = "null" \/ base64 = "null"
  THEN [promise |-> Rejected("NO_URI"), docs |-> docs]
  ELSE CASE stream = "throws" -> [promise |-> Rejected("WRITE_ERROR"), docs |-> docs]
         [] stream = "null"   -> [promise |-> Resolved(uri), docs |-> docs]
         [] OTHER ->
              IF writeOk
              THEN [promise |-> Resolved(uri), docs |-> [docs EXCEPT ![uri] = Base64Decode[base64]]]
              ELSE [promise |-> Rejected("WRITE_ERROR"), docs |-> [docs EXCEPT ![uri] = "partial"]]

\* onActivityResult(activity, requestCode, resultCode, data); data is "null" for no intent,
\* "nouri" for an intent without data.data, else the chosen URI
onActivityResult(requestCode, resultCode, data, stream, writeOk) ==
  /\ requestCode = SaveRequestCode => pickers > 0
  /\ pickers' = IF requestCode = SaveRequestCode THEN pickers - 1 ELSE pickers
  /\ IF requestCode = SaveRequestCode /\ pendingPromise # 0
     THEN /\ pendingPromise' = 0
          /\ pendingFileName' = "null"
          /\ pendingBase64' = "null"
          /\ IF resultCode = "RESULT_OK" /\ data # "null"
             THEN LET uri == IF data = "nouri" THEN "null" ELSE data
                      w == WriteDocument(uri, pendingBase64, stream, writeOk, documents)
                  IN /\ promises' = [promises EXCEPT ![pendingPromise] = w.promise]
                     /\ documents' = w.docs
             ELSE /\ promises' = [promises EXCEPT ![pendingPromise] = Rejected("CANCELLED")]
                  /\ UNCHANGED documents
     ELSE UNCHANGED <<pendingPromise, pendingFileName, pendingBase64, promises, documents>>

(***************************************************************************)
(* The app                                                                 *)
(***************************************************************************)
\* the screen is mounted, its effect has run once: initializeApp is at its first await
Init ==
  /\ isLogging = FALSE
  /\ logData = <<>>
  /\ arrived = <<>>
  /\ excelData = <<>>
  /\ epochArg = <<>>
  /\ epochResult = "none"
  /\ SafIdle
  /\ alert = "none"
  /\ routeDevice = NoDevice
  /\ isBluetoothEnabled = FALSE
  /\ isScanning = FALSE
  /\ pairedDevices = <<>>
  /\ unpairedDevices = <<>>
  /\ connectedDevice = NoDevice
  /\ status = "Initializing..."
  /\ isAppReady = FALSE
  /\ appState = "active"
  /\ backIsScanning = FALSE
  /\ dataSubscription = NoSubscription
  /\ liveSubs = [a \in Addresses |-> 0]
  /\ osBonded = {"sensor1", "phone", "generic"}
  /\ osConnected = {}
  /\ lastConnectedDevice \in {"none", "sensor1", "sensor2"}
  /\ lastSuccess = lastConnectedDevice
  /\ tasks = [t \in Tasks |-> IF t = 1 THEN Task("init", "i_check", NoDevice, <<>>, NoDevice) ELSE Idle]
  /\ now = 0
  /\ autoAttempts = 0
  /\ registrations = 0
  /\ userActions = 0

TaskStep(t) ==
  \/ InitCheck(t) \/ InitLast(t) \/ InitError(t) \/ InitFind(t)
  \/ FetchPerm(t) \/ FetchSettle(t) \/ FetchFail(t) \/ FetchTimeout(t)
  \/ ConnectPerm(t)
  \/ \E r \in {"true", "false", "reject"} : PairSettle(t, r)
  \/ PairTimeout(t)
  \/ \E r \in {"true", "false", "reject"} : ConnectSettle(t, r)
  \/ ConnectTimeout(t)
  \/ \E ok \in BOOLEAN : StoreSettle(t, ok)
  \/ \E ok \in BOOLEAN : DisconnectSettle(t, ok)
  \/ RemovePerm(t)
  \/ \E r \in {"true", "false", "reject"} : RemoveSettle(t, r)
  \/ RescanFire(t)
  \/ \E found \in SUBSET Discoverable : RescanSettle(t, found)
  \/ RescanFail(t)
  \/ \E ok \in BOOLEAN : ScanCancel(t, ok)
  \/ \E granted \in BOOLEAN : ScanPerm(t, granted)
  \/ \E r \in {"true", "false", "reject"} : ScanEnabled(t, r)
  \/ \E found \in SUBSET Discoverable : ScanSettle(t, found)
  \/ ScanFail(t)
  \/ ScanTimeout(t)

UserStep(t) ==
  \/ \E a \in Addresses, b \in BOOLEAN : ConnectTap(t, Device(a, b))
  \/ DisconnectTap(t)
  \/ \E a \in Addresses : RemoveTap(t, Device(a, TRUE))
  \/ ScanTap(t)
  \/ \E next \in AppStates : AppStateChange(t, next)

\* the hardware back button
BackStep == StopScanning

LogStep ==
  \/ NavigateToLogs \/ StopLogging \/ ClearLogs
  \/ \E writeOk \in BOOLEAN : StartLogging(writeOk)
  \/ \E a \in Addresses, data \in Payloads : DataReceived(a, data)

Next ==
  \/ \E t \in Tasks : TaskStep(t)
  \/ \E t \in Tasks : UserStep(t)
  \/ BackStep
  \/ LogStep

Spec == Init /\ [][Next]_vars

\* the steps the runtime always takes in the end: a permission request returns, an
\* AsyncStorage call settles, a setTimeout timer fires.  A platform call (pairDevice,
\* device.connect, getBondedDevices) is free never to settle.
Fairness ==
  \A t \in Tasks :
    /\ WF_vars(ConnectPerm(t))
    /\ WF_vars(FetchPerm(t))
    /\ WF_vars(FetchTimeout(t))
    /\ WF_vars(PairTimeout(t))
    /\ WF_vars(ConnectTimeout(t))
    /\ WF_vars(\E ok \in BOOLEAN : StoreSettle(t, ok))
    /\ WF_vars(\E granted \in BOOLEAN : ScanPerm(t, granted))
    /\ WF_vars(ScanTimeout(t))

FairSpec == Spec /\ Fairness

(***************************************************************************)
(* LogsScreen: exportToExcel over the logs a session can hold               *)
(***************************************************************************)
\* the Export button (disabled while the log is empty): the rows are built and handed to
\* aoa_to_sheet
ExportToExcel ==
  /\ routeDevice # NoDevice
  /\ logData # <<>>
  /\ excelData' = BuildExcelData(logData)
  /\ UNCHANGED <<isLogging, logData, arrived, routeDevice, epochArg, epochResult, safVars, alert, screenVars,
                 platformVars, tasks, histVars>>

\* the app after launch, connected to sensor1 and listening, nothing in progress
Connected ==
  /\ routeDevice = Device("sensor1", TRUE)
  /\ isBluetoothEnabled = TRUE
  /\ isScanning = FALSE
  /\ pairedDevices = <<Device("sensor1", TRUE)>>
  /\ unpairedDevices = <<>>
  /\ connectedDevice = Device("sensor1", TRUE)
  /\ isAppReady = TRUE
  /\ appState = "active"
  /\ backIsScanning = FALSE
  /\ dataSubscription = [address |-> "sensor1", removed |-> FALSE]
  /\ liveSubs = [a \in Addresses |-> IF a = "sensor1" THEN 1 ELSE 0]
  /\ osBonded = {"sensor1", "phone", "generic"}
  /\ osConnected = {"sensor1"}
  /\ lastConnectedDevice = "sensor1"
  /\ lastSuccess = "sensor1"
  /\ tasks = [t \in Tasks |-> Idle]
  /\ now = 0
  /\ autoAttempts = 1
  /\ registrations = 1
  /\ userActions = 0

\* the logs screen of a connected session that has received up to MaxLines payloads
InitText ==
  /\ Connected
  /\ isLogging \in BOOLEAN
  /\ logData \in {[i \in 1 .. Len(q) |-> [timestamp |-> 0, data |-> q[i]]] :
                    q \in SeqsUpTo(SampleLines, MaxLines)}
  /\ arrived = [i \in 1 .. Len(logData) |-> logData[i].data]
  /\ status = IF logData = <<>> THEN "App ready. Tap \"Scan for Devices\" to start."
                                ELSE "Receiving data..."
  /\ excelData = <<>>
  /\ epochArg = <<>>
  /\ epochResult = "none"
  /\ SafIdle
  /\ alert = "none"

NextText == ExportToExcel

SpecText == InitText /\ [][NextText]_vars

(***************************************************************************)
(* LogsScreen: isEpoch over the digit runs a line can carry                 *)
(***************************************************************************)
MaxSuffix == 3

\* values at the edges of the accepted range and of the seconds / milliseconds switch
EpochBases ==
  { Str(946684799), Str(946684800), Str(1700000000), Str(2000000000), Str(2000000001),
    Dg(4102, 4) \o Dg(444799, 6), Dg(4102, 4) \o Dg(444800, 6), Dg(4102, 4) \o Dg(444801, 6) }

\* a token of /\b\d{10,13}\b/: a base, possibly after a leading zero and before more digits
EpochTokens ==
  { m \in { z \o b \o x : z \in {<<>>, <<"0">>}, b \in EpochBases,
                         x \in SeqsUpTo({"0", "9"}, MaxSuffix) } :
      Len(m) >= 10 /\ Len(m) <= 13 }

\* const num = Number(m); if (!isEpoch(num)) ...
CallIsEpoch ==
  /\ epochResult = "none"
  /\ epochResult' = IF isEpoch(Number(epochArg)) THEN "accepted" ELSE "rejected"
  /\ UNCHANGED <<isLogging, logData, arrived, excelData, epochArg, safVars, alert, routeDevice, screenVars,
                 platformVars, tasks, histVars>>

InitEpoch ==
  /\ Connected
  /\ isLogging = FALSE
  /\ logData = <<>>
  /\ arrived = <<>>
  /\ status = "App ready. Tap \"Scan for Devices\" to start."
  /\ excelData = <<>>
  /\ epochArg \in EpochTokens
  /\ epochResult = "none"
  /\ SafIdle
  /\ alert = "none"

NextEpoch == CallIsEpoch

SpecEpoch == InitEpoch /\ [][NextEpoch]_vars

(***************************************************************************)
(* SafFileModule: saves requested from the logs screen                     *)
(***************************************************************************)
\* a call of the module from exportToExcel
SaveCall ==
  /\ \E f \in FileNames, b \in Base64Texts, activity \in BOOLEAN : saveFileWithDialog(f, b, activity)
  /\ UNCHANGED <<isLogging, logData, arrived, excelData, epochArg, epochResult, alert,
                 routeDevice, screenVars, platformVars, tasks, histVars>>

\* an activity result delivered to the module: the picker's, or one of another request
ActivityResult ==
  \E rq \in {SaveRequestCode, 1}, rc \in {"RESULT_OK", "RESULT_CANCELED"},
     data \in {"null", "nouri"} \cup Uris, stream \in {"stream", "null", "throws"},
     writeOk \in BOOLEAN :
    /\ onActivityResult(rq, rc, data, stream, writeOk)
    /\ UNCHANGED <<isLogging, logData, arrived, excelData, epochArg, epochResult, alert,
                   routeDevice, screenVars, platformVars, tasks, histVars>>

\* the logs screen holds a received payload and the Export button has built its sheet
InitSaf ==
  /\ Connected
  /\ isLogging \in BOOLEAN
  /\ \E data \in Payloads : logData = <<[timestamp |-> 0, data |-> data]>>
  /\ arrived = [i \in 1 .. Len(logData) |-> logData[i].data]
  /\ status = "Receiving data..."
  /\ excelData = BuildExcelData(logData)
  /\ epochArg = <<>>
  /\ epochResult = "none"
  /\ SafIdle
  /\ alert = "none"

NextSaf == SaveCall \/ ActivityResult

SpecSaf == InitSaf /\ [][NextSaf]_vars

(***************************************************************************)
(* LogContext: the log of a connected session                              *)
(***************************************************************************)
\* payloads a device sends: a data line, lines of other kinds, an empty line
LogPayloads == Payloads \cup {<<"P", ":", "1">>, <<"d", ":", "x">>, <<>>}

InitLog ==
  /\ Connected
  /\ isLogging \in BOOLEAN
  /\ logData = <<>>
  /\ arrived = <<>>
  /\ status = "App ready. Tap \"Scan for Devices\" to start."
  /\ excelData = <<>>
  /\ epochArg = <<>>
  /\ epochResult = "none"
  /\ SafIdle
  /\ alert = "none"

NextLog ==
  \/ StopLogging \/ ClearLogs
  \/ \E writeOk \in BOOLEAN : StartLogging(writeOk)
  \/ \E a \in Addresses, data \in LogPayloads : DataReceived(a, data)
  \/ \E a \in Addresses, first \in LogPayloads, second \in LogPayloads : DataBurst(a, first, second)

SpecLog == InitLog /\ [][NextLog]_vars

(***************************************************************************)
(* LogsScreen: exportToExcel on Android, from the call to the picker's     *)
(* answer                                                                  *)
(***************************************************************************)
\* XLSX.write(workbook, {type: 'base64'}): the workbook of a sheet with data rows, or of
\* the header alone
XlsxWrite(sheet) == IF Len(sheet) > 1 THEN "UEsDBA==" ELSE "UEsDBB=="

\* an exportToExcel without the check for an empty log
exportToExcel_NoGuard(fileName, activity) ==
  /\ excelData' = BuildExcelData(logData)
  /\ saveFileWithDialog(fileName, XlsxWrite(BuildExcelData(logData)), activity)
  /\ alert' = IF activity THEN alert ELSE "Failed to generate Excel file: No current activity"

\* exportToExcel up to its await: the empty-log return, or the sheet, the workbook and the
\* call of saveFileWithDialog (whose NO_ACTIVITY rejection reaches the catch at once)
exportToExcel(fileName, activity) ==
  IF logData = <<>>
  THEN /\ alert' = "No log data to export."
       /\ UNCHANGED <<excelData, safVars>>
  ELSE /\ excelData' = BuildExcelData(logData)
       /\ saveFileWithDialog(fileName, XlsxWrite(BuildExcelData(logData)), activity)
       /\ alert' = IF activity THEN alert ELSE "Failed to generate Excel file: No current activity"

\* what exportToExcel shows when the promise it awaits has settled
ExportAlert(promise) ==
  IF promise.state = "resolved" THEN "Log file saved!"
  ELSE "Failed to generate Excel file: " \o promise.value

\* exportToExcel is called.  (The Export button is disabled while the log is empty; the
\* call with an empty log is the function's own first branch.)
ExportCall ==
  /\ routeDevice # NoDevice
  /\ \E f \in FileNames, activity \in BOOLEAN : exportToExcel(f, activity)
  /\ UNCHANGED <<isLogging, logData, arrived, epochArg, epochResult, routeDevice, screenVars,
                 platformVars, tasks, histVars>>

\* the picker answers; the exportToExcel awaiting the settled promise goes on to its toast
\* or to its catch
ExportResult ==
  \E rq \in {SaveRequestCode, 1}, rc \in {"RESULT_OK", "RESULT_CANCELED"},
     data \in {"null", "nouri"} \cup Uris, stream \in {"stream", "null", "throws"},
     writeOk \in BOOLEAN :
    /\ onActivityResult(rq, rc, data, stream, writeOk)
    /\ alert' = IF promises' # promises THEN ExportAlert(promises'[pendingPromise]) ELSE alert
    /\ UNCHANGED <<isLogging, logData, arrived, excelData, epochArg, epochResult,
                   routeDevice, screenVars, platformVars, tasks, histVars>>

\* the logs screen of a connected session with an empty log or one received payload
InitExport ==
  /\ Connected
  /\ isLogging \in BOOLEAN
  /\ logData \in {<<>>} \cup {<<[timestamp |-> 0, data |-> data]>> : data \in LogPayloads}
  /\ arrived = [i \in 1 .. Len(logData) |-> logData[i].data]
  /\ status = IF logData = <<>> THEN "App ready. Tap \"Scan for Devices\" to start."
                                ELSE "Receiving data..."
  /\ excelData = <<>>
  /\ epochArg = <<>>
  /\ epochResult = "none"
  /\ SafIdle
  /\ alert = "none"

NextExport == ExportCall \/ ExportResult \/ ClearLogs \/ StopLogging

SpecExport == InitExport /\ [][NextExport]_vars

(***************************************************************************)
(* MainScreen: a launch without a stored device, on which only the Scan    *)
(* button, the hardware back button and app-state changes are used         *)
(***************************************************************************)
MaxScanActions == 3

ScanEvent == userActions < MaxScanActions /\ userActions' = userActions + 1

InitScan == Init /\ lastConnectedDevice = "none"

ScanPress(t) == ScanEvent /\ scanForDevices(t)

AppChange(t, next) == ScanEvent /\ appStateChanged(t, next)

NextScan ==
  \/ \E t \in Tasks : ScanPress(t)
  \/ \E t \in Tasks, next \in AppStates : AppChange(t, next)
  \/ StopScanning
  \/ \E t \in Tasks : InitCheck(t) \/ InitLast(t) \/ InitError(t)
  \/ \E t \in Tasks : FetchPerm(t) \/ FetchSettle(t) \/ FetchFail(t) \/ FetchTimeout(t)
  \/ \E t \in Tasks, ok \in BOOLEAN : ScanCancel(t, ok)
  \/ \E t \in Tasks, granted \in BOOLEAN : ScanPerm(t, granted)
  \/ \E t \in Tasks, r \in {"true", "false", "reject"} : ScanEnabled(t, r)
  \/ \E t \in Tasks, found \in SUBSET Discoverable : ScanSettle(t, found)
  \/ \E t \in Tasks : ScanFail(t) \/ ScanTimeout(t)

SpecScan == InitScan /\ [][NextScan]_vars

(***************************************************************************)
(* C1                                                                      *)
(***************************************************************************)
DataArrives == \E a \in Addresses, data \in Payloads : DataReceived(a, data)

\* C1: a payload received while isLogging is false leaves logData unchanged, and one
\* received while isLogging is true appends exactly one entry.
C1_AppendOnlyWhileLogging ==
  [][DataArrives => IF isLogging THEN Len(logData') = Len(logData) + 1
                                 ELSE logData' = logData]_vars

(***************************************************************************)
(* C2                                                                      *)
(***************************************************************************)
\* C2: every line the live log view shows is the received line with each plausible
\* 10-13 digit Unix time replaced by its formatted UTC timestamp.
C2_LiveViewFormatsEpochs ==
  \A i \in 1 .. Len(logData) : TerminalText[i] = convertLineTimestamps(logData[i].data)

(***************************************************************************)
(* C3                                                                      *)
(***************************************************************************)
\* 946684800 <= x <= 4102444800
InYears2000To2100(x) == NumLeq(Str(946684800), x) /\ NumLeq(x, Dg(4102, 4) \o Dg(444800, 6))

\* what the claim accepts: a seconds value in the range, or a milliseconds value whose
\* whole seconds are in the range
ClaimedEpoch(n) == InYears2000To2100(n) \/ InYears2000To2100(FloorDiv1000(n))

\* C3: isEpoch accepts a number exactly when, read as seconds or as milliseconds, it
\* lies between 2000-01-01 and 2100-01-01 UTC.
C3_IsEpochExactRange ==
  epochResult # "none" =>
    (epochResult = "accepted" <=> ClaimedEpoch(Number(epochArg)))

(***************************************************************************)
(* C4                                                                      *)
(***************************************************************************)
\* data begins, after optional white space, with one of the given letters and a colon
BeginsWith(data, letters) ==
  \E k \in 0 .. Len(data) :
    /\ \A j \in 1 .. k : data[j] \in {" ", "\t"}
    /\ k + 2 <= Len(data)
    /\ data[k + 1] \in letters
    /\ data[k + 2] = ":"

\* the sheet is the header and one row per selected entry, in log order, numbered 1..n
SheetOf(sheet, selected) ==
  /\ Len(sheet) = Len(selected) + 1
  /\ sheet[1] = <<"Serial Number", "Date", "Time", "Outlet PPM", "Inlet PPM">>
  /\ \A i \in 1 .. Len(selected) :
       /\ sheet[i + 1][1] = Str(i)
       /\ sheet[i + 1] = ExcelRow(i, selected[i].data)

DigitsOnly(s, from, to) == from <= to /\ \A j \in from .. to : s[j] \in Digits

\* the occurrences of <10-13 digits>,<digits>,<digits># in s: where each one starts and
\* the length of each of its three digit fields
FieldMatches(s) ==
  UNION { UNION { { <<i, a, b, c>> :
                      c \in { z \in 1 .. Len(s) :
                                /\ i + a + b + z + 2 <= Len(s)
                                /\ DigitsOnly(s, i + a + b + 2, i + a + b + z + 1)
                                /\ s[i + a + b + z + 2] = "#" } } :
                  b \in { y \in 1 .. Len(s) :
                            /\ i + a + y + 1 <= Len(s)
                            /\ DigitsOnly(s, i + a + 1, i + a + y)
                            /\ s[i + a + y + 1] = "," } } :
          <<i, a>> \in { w \in (1 .. Len(s)) \X (10 .. 13) :
                           /\ w[1] + w[2] <= Len(s)
                           /\ DigitsOnly(s, w[1], w[1] + w[2] - 1)
                           /\ s[w[1] + w[2]] = "," } }

\* the first such occurrence, its first field taken as long as it can be
FirstMatch(s) ==
  CHOOSE m \in FieldMatches(s) :
    \A o \in FieldMatches(s) : m[1] < o[1] \/ (m[1] = o[1] /\ m[2] >= o[2])

\* the UTC calendar date and clock time of an instant given in epoch seconds
DateOfSeconds(sec) ==
  LET days == DivMod(sec, 86400).q
      c    == Civil(days)
  IN  LongDayNames[((days + 4) % 7) + 1] \o <<",", " ">> \o LongMonthNames[c.month + 1]
        \o <<" ">> \o Str(c.date) \o <<",", " ">> \o Str(c.year)

TimeOfSeconds(sec) ==
  LET sod == DivMod(sec, 86400).r
  IN  pad(sod \div 3600) \o <<":">> \o pad((sod % 3600) \div 60) \o <<":">> \o pad(sod % 60)

\* the date, time, outlet and inlet the claim describes for an entry's data
ClaimedFields(line) ==
  IF FieldMatches(line) = {} THEN << <<>>, <<>>, <<>>, <<>> >>
  ELSE LET m   == FirstMatch(line)
           sec == Number(SubSeq(line, m[1], m[1] + m[2] - 1))
       IN  << DateOfSeconds(sec), TimeOfSeconds(sec),
              SubSeq(line, m[1] + m[2] + 1, m[1] + m[2] + m[3]),
              SubSeq(line, m[1] + m[2] + m[3] + 2, m[1] + m[2] + m[3] + m[4] + 1) >>

\* the exported entries, in row order
ExportedLines == SelectSeq(logData, LAMBDA e : BeginsWith(e.data, {"D", "d"}))

\* C5: for every exported line with <10-13 digits>,<digits>,<digits># the row's outlet and
\* inlet are the second and third fields verbatim and its date and time are those of the
\* first field taken as epoch seconds, whatever its digit count; a line with no such
\* match yields a row whose date, time, outlet and inlet are all empty.
C5_RowFieldsFromMatch ==
  excelData # <<>> =>
    \A i \in 1 .. Len(ExportedLines) :
      i + 1 <= Len(excelData) =>
        SubSeq(excelData[i + 1], 2, 5) = ClaimedFields(ExportedLines[i].data)

(***************************************************************************)
(* C6                                                                      *)
(***************************************************************************)
\* of the devices in range, those whose name contains a block-listed generic name
\* ("My ANDROID" contains 'Android') or whose address contains a block-listed pattern
\* ("00:00:00:12:34:56" contains '00:00:00')
BlockListed == {"phone", "generic"}

\* the bonded devices outside the block-lists, in the platform's order
ExpectedPaired(bondedSet) ==
  SelectSeq(<< Device("sensor1", TRUE), Device("sensor2", TRUE),
               Device("phone", TRUE), Device("generic", TRUE) >>,
            LAMBDA d : d.address \in bondedSet \ BlockListed)

\* fetchPairedDevices of task t gets the bond list and reports success in this step
FetchSucceeds(t) ==
  /\ tasks[t].pc = "f_bonded"
  /\ tasks'[t].pc # "f_bonded"
  /\ status' = "Found paired devices."

TotalLive ==
  liveSubs["sensor1"] + liveSubs["sensor2"] + liveSubs["phone"] + liveSubs["generic"]

\* C7: at most one data-received subscription of the app is live at any time, so one
\* incoming payload appends at most one log entry.
C7_SingleSubscription ==
  /\ [](TotalLive <= 1)
  /\ [][DataArrives => Len(logData') <= Len(logData) + 1]_vars

\* a second listener has been registered and has taken the place of the first, and a
\* payload has been delivered to it
C7_Witness ==
  /\ registrations = 2
  /\ TotalLive = 1
  /\ logData # <<>>

(***************************************************************************)
(* C8                                                                      *)
(***************************************************************************)
\* C8: over a whole run of the app, app-state changes included, at most one automatic
\* connect attempt to the stored last address is made.
C8_SingleAutoReconnect == autoAttempts <= 1

(***************************************************************************)
(* C9                                                                      *)
(***************************************************************************)
\* task t is an initializeApp that takes this step
InitActs(t) == tasks[t].kind = "init" /\ tasks'[t] # tasks[t]

\* the outer catch of initializeApp (getItem or getBondedDevices rejected)
InitThrows == status' = "Error initializing app. Please restart."

\* initializeApp t ends in this step with no reconnect made: the stored address is absent
\* or not bonded, or the connect attempt was refused, failed, rejected or timed out
ReconnectGivenUp(t) ==
  /\ InitActs(t)
  /\ tasks'[t].kind = "idle"
  /\ \/ tasks[t].pc \in {"c_perm", "c_conn"}
     \/ tasks[t].pc \in {"i_last", "i_find"} /\ ~InitThrows

\* initializeApp t calls connectToDevice in this step
ReconnectAttempt(t) == InitActs(t) /\ tasks[t].pc = "i_find" /\ tasks'[t].pc = "c_perm"

InConnect(t) ==
  \/ tasks[t].kind = "connect"
  \/ tasks[t].kind = "init" /\ tasks[t].pc \in {"c_perm", "c_conn", "c_store"}

InScan(t) == tasks[t].kind = "scan"

\* C11: every scan started by scanForDevices eventually ends, and it ends with isScanning
\* false, whichever way it ends (success, permission denial, Bluetooth off, a thrown error,
\* a platform discovery call that never settles).
C11_ScanEnds ==
  /\ \A t \in Tasks : InScan(t) ~> ~InScan(t)
  /\ [][\A t \in Tasks : (InScan(t) /\ tasks'[t].kind # "scan") => isScanning' = FALSE]_vars

(***************************************************************************)
(* C12                                                                     *)
(***************************************************************************)
\* how far a connectToDevice invocation has come: pairDevice is called on the way to
\* "c_pair", device.connect() on the way to "c_conn"
ConnectRank(pc) ==
  CASE pc = "c_perm" -> 1 [] pc = "c_pair" -> 2 [] pc = "f_perm" -> 3 [] pc = "f_bonded" -> 4
    [] pc = "c_conn" -> 5 [] pc = "c_store" -> 6 [] OTHER -> 0

\* within one invocation every step moves on, so no call is made twice
OneCallEach ==
  \A t \in Tasks :
    (InConnect(t) /\ InConnect(t)' /\ tasks'[t] # tasks[t])
      => ConnectRank(tasks'[t].pc) > ConnectRank(tasks[t].pc)

\* a connectToDevice invocation starts on a tap, or as the one attempt of the launch
StartedByUserOrLaunch ==
  \A t \in Tasks :
    (~InConnect(t) /\ InConnect(t)')
      => \/ userActions' = userActions + 1
         \/ ReconnectAttempt(t) /\ autoAttempts = 0

\* C12: there is no retry: one connectToDevice invocation calls pairDevice at most once and
\* device.connect() at most once, and after a failed, rejected or timed-out pairing or
\* connection the app connects again only on a new user action or a new launch.
C12_NoRetry == [][OneCallEach /\ StartedByUserOrLaunch]_vars

(***************************************************************************)
(* C13                                                                     *)
(***************************************************************************)
\* what onActivityResult can be handed for the picker's request
PickerData == {"null", "nouri"} \cup Uris
PickerStreams == {"stream", "null", "throws"}

\* the picker's answer reaches the module while a save is pending
PickerAnswers(resultCode, data, stream, writeOk) ==
  pendingPromise # 0 /\ onActivityResult(SaveRequestCode, resultCode, data, stream, writeOk)

\* C13: the promise of saveFileWithDialog resolves with the chosen URI only once the decoded
\* bytes are in the document at that URI; a cancelled picker rejects it with CANCELLED and
\* writes nothing; an answer without URI rejects it with NO_URI; a failing write rejects it
\* with WRITE_ERROR; without a current activity the call rejects with NO_ACTIVITY, opens no
\* picker and leaves the pending fields alone.
C13_SavedWhereChosen ==
  [][/\ \A p \in Saves, u \in Uris :
          (promises[p] = Pending /\ promises'[p] = Resolved(u))
            => documents'[u] = Base64Decode[pendingBase64]
     /\ \A d \in PickerData, st \in PickerStreams, w \in BOOLEAN :
          /\ PickerAnswers("RESULT_CANCELED", d, st, w)
               => /\ promises'[pendingPromise] = Rejected("CANCELLED")
                  /\ documents' = documents
          /\ PickerAnswers("RESULT_OK", "nouri", st, w)
               => promises'[pendingPromise] = Rejected("NO_URI")
     /\ \A u \in Uris, w \in BOOLEAN :
          /\ PickerAnswers("RESULT_OK", u, "throws", w)
               => promises'[pendingPromise] = Rejected("WRITE_ERROR")
          /\ PickerAnswers("RESULT_OK", u, "stream", FALSE)
               => promises'[pendingPromise] = Rejected("WRITE_ERROR")
     /\ \A f \in FileNames, b \in Base64Texts :
          saveFileWithDialog(f, b, FALSE)
            => /\ promises'[NextPromise] = Rejected("NO_ACTIVITY")
               /\ UNCHANGED <<pickers, pendingPromise, pendingFileName, pendingBase64>>]_vars

(***************************************************************************)
(* C14                                                                     *)
(***************************************************************************)
\* the payloads of the entries of a log, in its order
DataOf(log) == [i \in 1 .. Len(log) |-> log[i].data]

\* C14: logData is the sequence of the payloads appended since the last clearLogs, in
\* arrival order; a step that appends keeps the earlier entries as they are and adds at the
\* end, also when two payloads arrive before the next render.
C14_ArrivalOrder ==
  /\ [](DataOf(logData) = arrived)
  /\ [][Len(logData') > Len(logData)
          => /\ SubSeq(logData', 1, Len(logData)) = logData
             /\ Len(arrived') - Len(arrived) = Len(logData') - Len(logData)]_vars

\* two different payloads delivered in one burst, after the log had been cleared
C14_Witness ==
  /\ Len(logData) = 2
  /\ logData[1].data # logData[2].data
  /\ logData[1].timestamp = logData[2].timestamp
  /\ logData[1].timestamp > 0

(***************************************************************************)
(* C15                                                                     *)
(***************************************************************************)
\* invocation t of connectToDevice ends in this step without a connection: permissions
\* denied, pairing failed, or connect() falsy, rejected or timed out
ConnectFails(t) ==
  /\ InConnect(t)
  /\ tasks[t].pc \in {"c_perm", "c_pair", "c_conn"}
  /\ ~InConnect(t)'

\* device.connect() of invocation t returns true in this step
ConnectSucceeds(t) == InConnect(t) /\ tasks[t].pc = "c_conn" /\ tasks'[t].pc = "c_store"

\* C15: connectedDevice becomes a device only in the step in which device.connect() of that
\* device returned true; an invocation that ends on denied permissions, a failed pairing or
\* a falsy, rejected or timed-out connect leaves connectedDevice, the data subscription and
\* the stored last address as they were.
C15_ConnectedOnlyOnSuccess ==
  [][/\ (connectedDevice' # connectedDevice /\ connectedDevice' # NoDevice)
          => \E t \in Tasks : /\ ConnectSucceeds(t)
                              /\ connectedDevice' = tasks[t].dev
                              /\ connectedDevice'.address \in osConnected'
     /\ \A t \in Tasks :
          ConnectFails(t)
            => UNCHANGED <<connectedDevice, dataSubscription, liveSubs, lastConnectedDevice>>]_vars

\* a pairing from the available list has timed out while another device stayed connected
\* with its listener and its stored address
C15_Witness ==
  /\ status = "Pairing failed: Pairing timeout"
  /\ connectedDevice = Device("sensor1", TRUE)
  /\ dataSubscription = [address |-> "sensor1", removed |-> FALSE]
  /\ TotalLive = 1
  /\ lastConnectedDevice = "sensor1"

(***************************************************************************)
(* C16                                                                     *)
(***************************************************************************)
\* invocation t calls pairDevice in this step
CallsPair(t) == InConnect(t) /\ tasks[t].pc = "c_perm" /\ tasks'[t].pc = "c_pair"

\* invocation t calls device.connect() in this step, without or after a pairing
CallsConnect(t) == InConnect(t) /\ tasks[t].pc # "c_conn" /\ tasks'[t].pc = "c_conn"

\* the rule of connectToDevice, with bonded(d) deciding which devices count as bonded:
\* connect() without a pairing only for a bonded device, connect() after a pairing only
\* when pairDevice returned true, no connect() after a failed pairing, and no pairDevice
\* for a bonded device
PairingPrecedes(bonded(_)) ==
  \A t \in Tasks :
    /\ (CallsConnect(t) /\ tasks[t].pc = "c_perm") => bonded(tasks[t].dev)
    /\ (CallsConnect(t) /\ tasks[t].pc # "c_perm")
         => tasks[t].pc \in {"f_perm", "f_bonded"} /\ ~tasks[t].dev.bonded
    /\ (InConnect(t) /\ tasks[t].pc = "c_pair" /\ tasks'[t].pc # "c_pair")
         => \/ tasks'[t].pc = "f_perm" /\ tasks[t].dev.address \in osBonded'
            \/ ~InConnect(t)'
    /\ CallsPair(t) => ~bonded(tasks[t].dev)

\* a device the operating system has in its bond list
OsBonded(d) == d.address \in osBonded

\* C16: pairing precedes connection: device.connect() is called for a device that is not in
\* the bond list only after pairDevice returned true for it in the same invocation; after a
\* pairing that returned false, rejected or timed out the invocation ends without calling
\* connect(); pairDevice is never called for a device that is in the bond list.
C16_PairingPrecedesConnection == [][PairingPrecedes(OsBonded)]_vars

(***************************************************************************)
(* C17                                                                     *)
(***************************************************************************)
\* some invocation has connected and its setItem('lastConnectedDevice', ...) is in flight
StoreInFlight == \E t \in Tasks : tasks[t].pc = "c_store"

\* C17: the stored key lastConnectedDevice is written only by a connectToDevice whose
\* connect() succeeded, with the address of its device, and once no write is in flight it
\* is the address of the device that connected successfully last (the stored value of the
\* launch if none did); a failed connect, a disconnect and a removal leave it alone.
C17_StoredLastAddress ==
  /\ [](~StoreInFlight => lastConnectedDevice = lastSuccess)
  /\ [][lastConnectedDevice' # lastConnectedDevice
          => \E t \in Tasks : /\ InConnect(t)
                              /\ tasks[t].pc = "c_store"
                              /\ lastConnectedDevice' = tasks[t].dev.address]_vars

(***************************************************************************)
(* C18                                                                     *)
(***************************************************************************)
\* the device of task t is the connected device
IsConnectedDevice(t) ==
  connectedDevice # NoDevice /\ connectedDevice.address = tasks[t].dev.address

\* removePairedDevice t calls unpairDevice in this step
CallsUnpair(t) ==
  tasks[t].kind = "remove" /\ tasks[t].pc # "r_unpair" /\ tasks'[t].pc = "r_unpair"

\* removePairedDevice t reports 'Successfully removed' in this step
RemoveSucceeds(t) ==
  tasks[t].kind = "remove" /\ tasks[t].pc = "r_unpair" /\ tasks'[t].pc = "rs_wait"

\* C18: removing the connected device disconnects it first: unpairDevice is called for a
\* device only when it is not the connected device, and when removePairedDevice reports
\* success connectedDevice is not the removed device.
C18_DisconnectBeforeUnpair ==
  [][\A t \in Tasks :
       /\ CallsUnpair(t) => ~IsConnectedDevice(t)'
       /\ RemoveSucceeds(t) => ~IsConnectedDevice(t)']_vars

(***************************************************************************)
(* C19                                                                     *)
(***************************************************************************)
\* the await of connectedDevice.disconnect() in task t ends in this step
DisconnectEnds(t) == tasks[t].pc = "d_disc" /\ tasks'[t].pc # "d_disc"

ScanInProgress == \E t \in Tasks : tasks[t].kind = "scan"

\* C20: scanForDevices invoked while Bluetooth is disabled, while the app is not yet ready
\* or while a scan is in progress starts no discovery and leaves isScanning and the list of
\* available devices as they were; only the status changes.
C20_GuardedScanChangesNothing ==
  [][\A t \in Tasks :
       (scanForDevices(t) /\ (~isBluetoothEnabled \/ ~isAppReady \/ ScanInProgress))
         => UNCHANGED <<isScanning, unpairedDevices, tasks>>]_vars

(***************************************************************************)
(* C21                                                                     *)
(***************************************************************************)
\* C21: exportToExcel with an empty log builds no sheet, writes no file and opens no save
\* dialog, it only shows 'No log data to export.'; and an export, whether it ends saved,
\* cancelled or failed, leaves logData and isLogging as they were.
C21_ExportLeavesLog ==
  [][/\ (ExportCall /\ logData = <<>>)
          => /\ alert' = "No log data to export."
             /\ UNCHANGED <<excelData, safVars>>
     /\ (ExportCall \/ ExportResult) => UNCHANGED <<logData, isLogging>>]_vars

\* exportToExcel has returned on an empty log: no sheet, no picker, no promise, no document
C21_Witness ==
  /\ alert = "No log data to export."
  /\ logData = <<>>
  /\ excelData = <<>>
  /\ pickers = 0
  /\ \A p \in Saves : promises[p] = Unused
  /\ \A u \in Uris : documents[u] = "empty"

(***************************************************************************)
(* C22                                                                     *)
(***************************************************************************)
\* C22: the operations of the log context touch only their own field: startLogging and
\* stopLogging set isLogging and leave logData as it is, appendLog and clearLogs change
\* logData and leave isLogging as it is; startLogging and stopLogging applied twice give
\* what they give applied once, and clearLogs always leaves the log empty.
C22_OwnFieldOnly ==
  /\ [](/\ startLogging(startLogging(isLogging)) = startLogging(isLogging)
        /\ stopLogging(stopLogging(isLogging)) = stopLogging(isLogging)
        /\ clearLogs(logData) = <<>>
        /\ clearLogs(clearLogs(logData)) = <<>>)
  /\ [][/\ (\E writeOk \in BOOLEAN : StartLogging(writeOk))
             => isLogging' /\ logData' = logData
        /\ StopLogging => ~isLogging' /\ logData' = logData
        /\ ClearLogs => logData' = <<>> /\ isLogging' = isLogging
        /\ Len(logData') > Len(logData) => isLogging' = isLogging]_vars

\* logging is on and the log holds the entries received, none dropped
C22_Witness ==
  /\ isLogging
  /\ Len(logData) = MaxLog
  /\ DataOf(logData) = arrived

(***************************************************************************)
(* C23                                                                     *)
(***************************************************************************)
\* the promise of call p has been resolved or rejected
Settled(p) == promises[p].state \in {"resolved", "rejected"}

\* C23: every promise handed to saveFileWithDialog is settled exactly once: a promise that
\* is still pending is the one the module holds in pendingPromise, the only one an activity
\* result can settle, and a promise that has been settled is never settled again.
C23_SettledExactlyOnce ==
  /\ [](\A p \in Saves : promises[p] = Pending => pendingPromise = p)
  /\ [][\A p \in Saves : Settled(p) => promises'[p] = promises[p]]_vars

(***************************************************************************)
(* C24                                                                     *)
(***************************************************************************)
\* the connectToDevice that set connectedDevice has run to its end
ConnectCompleted ==
  /\ connectedDevice # NoDevice
  /\ \A t \in Tasks : ~(tasks[t].pc = "c_store" /\ tasks[t].dev.address = connectedDevice.address)

\* C24: whenever connectedDevice is set and its connectToDevice has run to its end, a live
\* data listener is registered for that device, so that its payloads reach appendLog; also
\* after app-state changes have re-run the screen effect and its cleanup.
C24_ConnectedIsListening == ConnectCompleted => liveSubs[connectedDevice.address] >= 1

(***************************************************************************)
(* C25                                                                     *)
(***************************************************************************)
\* the invocations whose startDiscovery() is pending: user scans and delayed rescans
DiscoveriesInFlight == {t \in Tasks : tasks[t].pc \in {"s_disc", "rs_disc"}}

\* C25: at most one discovery started by the app is in flight at any time, and isScanning
\* is true for as long as one is in flight: a user scan and the rescan that follows a
\* removal never overlap, and neither sets isScanning to false under the other.
C25_OneDiscovery ==
  /\ Cardinality(DiscoveriesInFlight) <= 1
  /\ DiscoveriesInFlight # {} => isScanning

(***************************************************************************)
(* C26                                                                     *)
(***************************************************************************)
\* the addresses of the devices a list shows
AddressesOf(list) == {list[i].address : i \in 1 .. Len(list)}

\* C26: the paired-devices list and the available-devices list have no address in common,
\* in every reachable state.
C26_ListsDisjoint == AddressesOf(pairedDevices) \cap AddressesOf(unpairedDevices) = {}

(***************************************************************************)
(* C27                                                                     *)
(***************************************************************************)
\* C27: at any time at most one device holds a connection opened by the app, and it is the
\* device connectedDevice names.
C27_OnlyConnectedDeviceIsConnected ==
  /\ Cardinality(osConnected) <= 1
  /\ \A a \in osConnected : connectedDevice # NoDevice /\ connectedDevice.address = a

(***************************************************************************)
(* C28                                                                     *)
(***************************************************************************)
\* C28: whenever connectedDevice is set it is in the paired-devices list, so the connected
\* device always has a row from which it can be disconnected.
C28_ConnectedIsListed ==
  connectedDevice # NoDevice => connectedDevice.address \in AddressesOf(pairedDevices)

(***************************************************************************)
(* C29                                                                     *)
(***************************************************************************)
\* C29: pressing Start Logging leaves logging active only if the GET_LOGS request was
\* sent: without a connected device, and with a device whose write of 'GET_LOGS\n' fails,
\* isLogging is false when the handler has ended.
C29_LoggingOnlyIfRequested == [][StartLogging(FALSE) => ~isLogging']_vars

====
